---- MODULE Spec2Model ----
(***************************************************************************)
(* Model of the PFC conversation control loop (conversation_loop.py), the  *)
(* session it mutates (session.py, models.py), message ingestion           *)
(* (chatter.py) and the reply checker (replyer.py).                        *)
(*                                                                         *)
(* One user and one session are modelled.  A loop task is modelled by its  *)
(* position (pc) at the await points of the code; one action of the model  *)
(* is the code that runs between two await points.  Wall-clock time is     *)
(* abstracted: the ignore window is "future" until the clock passes it,    *)
(* and the Waiter times out at some poll after its first sleep.            *)
(***************************************************************************)
EXTENDS Integers, Sequences, FiniteSets, TLC

\* ------------------------------------------------------------------ bounds
MaxMsgs == 2
MaxActions == 1
MaxLoops == 2
MaxGoals == 2

\* ------------------------------------------------------- program constants
max_retries == 3
MAX_HISTORY_SIZE == 100
NEW_MESSAGE_SEND_THRESHOLD == 2
MAX_KNOWLEDGE == 10

Loops == 1..MaxLoops
MsgIds == 1..MaxMsgs

ReplyActions == {"direct_reply", "send_new_message"}
\* the actions whose handler sets should_continue = False (lines 476-497)
TerminalActions == {"end_conversation", "say_goodbye", "block_and_ignore"}

valid_actions ==
    {"direct_reply", "send_new_message", "fetch_knowledge", "wait", "listening",
     "rethink_goal", "end_conversation", "block_and_ignore", "say_goodbye"}

\* Goal texts are abstracted to the classes the code distinguishes:
\* the two Waiter timeout goals, the sentinel "结束对话" and any other goal.
GoalKinds == {"timeout_wait", "timeout_listen", "end", "other"}

VARIABLES
    session,     \* the PFCSession of the user
    loops,       \* loop objects: slot -> ConversationLoop fields and task position
    mgr,         \* ConversationLoopManager: registry entry and lock
    chatter,     \* PrefrontalCortexChatter.execute: position and unread messages
    ghost,       \* history variables read only by the properties
    checker,     \* a ReplyChecker with the history, the reply and the verdict of a call
    waiter,      \* a Waiter with its clock, its polls and the goals it appended
    planner,     \* one call of ActionPlanner.plan: its inputs, position and result
    sm,          \* a SessionManager with concurrent get_session calls
    storage,     \* a DatabaseSessionStorage with the history of one session
    obs          \* the goal texts and the capped history of one PFCSession

vars == <<session, loops, mgr, chatter, ghost, checker, waiter, planner, sm, storage, obs>>

\* the loop with its session, and the components exercised on their own
mainVars == <<session, loops, mgr, chatter, ghost>>
standalone == <<checker, waiter, planner, sm, storage, obs>>

\* ------------------------------------------------------------------ helpers
UserMsg(i) == [type |-> "user_message", id |-> i]
BotMsg == [type |-> "bot_message", id |-> 0]

Range(seq) == {seq[i] : i \in 1..Len(seq)}

RECURSIVE SelectSeqBy(_, _)
SelectSeqBy(seq, keep) ==
    IF seq = <<>> THEN <<>>
    ELSE IF Head(seq) \in keep THEN <<Head(seq)>> \o SelectSeqBy(Tail(seq), keep)
    ELSE SelectSeqBy(Tail(seq), keep)

\* PFCSession._trim_history
TrimHistory_KeepsOldest(h) ==
    IF Len(h) > MAX_HISTORY_SIZE THEN SubSeq(h, 1, MAX_HISTORY_SIZE) ELSE h

TrimHistory(h) ==
    IF Len(h) > MAX_HISTORY_SIZE
    THEN SubSeq(h, Len(h) - MAX_HISTORY_SIZE + 1, Len(h))
    ELSE h

\* PFCSession._clear_timeout_goals
ClearTimeoutGoals(goals) == SelectSeqBy(goals, {"end", "other"})

\* add_user_message without line 146: the message is queued and not counted
AddUserMessage_Uncounted(s, i) ==
    [s EXCEPT !.unprocessed_messages = Append(@, UserMsg(i)),
              !.goal_list = ClearTimeoutGoals(@)]

\* PFCSession.add_user_message
AddUserMessage(s, i) ==
    [s EXCEPT !.unprocessed_messages = Append(@, UserMsg(i)),
              !.new_messages_count = @ + 1,
              !.goal_list = ClearTimeoutGoals(@)]

RECURSIVE AddUserMessages(_, _)
AddUserMessages(s, ids) ==
    IF ids = <<>> THEN s
    ELSE AddUserMessages(AddUserMessage(s, Head(ids)), Tail(ids))

\* PFCSession.add_bot_message
AddBotMessage(s) ==
    [s EXCEPT !.chat_history = TrimHistory(Append(@, BotMsg))]

\* PFCSession.clear_unprocessed_messages -> ObservationInfo.clear_unprocessed_messages
ClearUnprocessedMessages_Discards(s) ==
    [s EXCEPT !.unprocessed_messages = <<>>, !.new_messages_count = 0]

ClearUnprocessedMessages(s) ==
    IF s.unprocessed_messages = <<>> THEN s
    ELSE [s EXCEPT !.chat_history = TrimHistory(@ \o s.unprocessed_messages),
                   !.unprocessed_messages = <<>>,
                   !.new_messages_count = 0]

\* ------------------------------------------------------------ initial state
\* PFCSession.__init__
InitSession ==
    [state |-> "init",
     should_continue |-> TRUE,
     ignore_until |-> "none",
     goal_list |-> <<>>,
     done_action |-> <<>>,
     last_successful_reply_action |-> "none",
     knowledge_list |-> <<>>,
     chat_history |-> <<>>,
     unprocessed_messages |-> <<>>,
     new_messages_count |-> 0,
     history_loaded |-> FALSE]

\* ConversationLoop.__init__ ; pc "none" is a slot holding no loop object
NoLoop ==
    [pc |-> "none", running |-> FALSE, interrupt |-> FALSE, cancelReq |-> FALSE,
     action |-> "none", action_index |-> 0, attempt |-> 0, initial |-> 0,
     lines |-> 0, need_replan |-> FALSE,
     planBase |-> 0, dispBase |-> 0, genBase |-> 0, sendBase |-> 0,
     genCalls |-> 0, softRejects |-> 0, didBlock |-> FALSE,
     ended_by |-> "none", final_reply |-> 0, acceptedText |-> 0,
     replanRejected |-> FALSE,
     subtasks |-> {}]

DeadLoop == [NoLoop EXCEPT !.pc = "done"]

\* the checker is exercised on its own (SpecChecker); here it stays unused
NoChecker == [pc |-> "unused"]

NoWaiter == [pc |-> "unused"]

\* no ActionPlanner.plan call and no SessionManager is under study
NoPlanner == [pc |-> "unused"]

NoManager == [pc |-> "unused"]

NoStorage == [pc |-> "unused"]

NoObs == [pc |-> "unused"]

InitMain ==
    /\ session = InitSession
    /\ loops = [l \in Loops |-> NoLoop]
    /\ mgr = [registered |-> 0, lock |-> "free"]
    /\ chatter = [pc |-> "idle", unread |-> <<>>, arrived |-> 0]
    /\ ghost = [ingested |-> 0, arrivedInWindow |-> {}, planned |-> 0]

Init ==
    /\ InitMain
    /\ obs = NoObs
    /\ storage = NoStorage
    /\ checker = NoChecker
    /\ waiter = NoWaiter
    /\ planner = NoPlanner
    /\ sm = NoManager

\* ---------------------------------------------------------------------------
\* The loop task.  A context c = [s, L, g] carries the session, the loop object
\* and the history variables through the code that runs between two awaits.
\* Fields of L that are not fields of ConversationLoop are the locals of _loop
\* and of the running handler (action, action_index, attempt, initial, lines,
\* need_replan) and history values (planBase .. didBlock).
\* ---------------------------------------------------------------------------
Ctx(s, L, g) == [s |-> s, L |-> L, g |-> g]

\* The locals of a handler, dropped when the handler returns.
ClearLocals(L) ==
    [L EXCEPT !.action = "none", !.action_index = 0, !.attempt = 0, !.initial = 0,
              !.lines = 0, !.need_replan = FALSE,
              !.planBase = 0, !.dispBase = 0, !.genBase = 0, !.sendBase = 0,
              !.genCalls = 0, !.softRejects = 0,
              !.final_reply = 0, !.acceptedText = 0]

\* _loop line 234: the loop leaves the while and the task ends
ExitLoop(c) ==
    [c EXCEPT !.L = [ClearLocals(@) EXCEPT !.pc = "done", !.running = FALSE,
                                           !.interrupt = FALSE, !.cancelReq = FALSE]]

\* _loop line 144: the while condition
LoopCondition(s, L) == L.running /\ s.should_continue

\* _loop lines 146-149: the ignore window is still open
InIgnoreWindow(s) == s.ignore_until = "future"

\* _loop lines 156-165: clear the interrupt, snapshot the counter, start
\* planning; planned records how many messages had been ingested by then
StartPlanning(c) ==
    [c EXCEPT !.L = [ClearLocals(@) EXCEPT
                        !.pc = "planning", !.interrupt = FALSE,
                        !.subtasks = @ \cup {"plan"},
                        !.replanRejected = FALSE,
                        !.initial = c.s.new_messages_count + 1,
                        !.planBase = c.g.ingested, !.dispBase = c.g.ingested],
              !.g.planned = c.g.ingested]

\* _loop lines 144-165: from the while condition to the first await
LoopTop(c) ==
    IF ~LoopCondition(c.s, c.L) THEN ExitLoop(c)
    ELSE IF InIgnoreWindow(c.s) THEN [c EXCEPT !.L.pc = "ignore_sleep"]
    ELSE IF c.s.ignore_until = "past"
    THEN LET s1 == [c.s EXCEPT !.ignore_until = "none",
                               !.should_continue =
                                   IF c.s.new_messages_count = 0 THEN FALSE ELSE @]
             c1 == [c EXCEPT !.s = s1]
         IN  IF ~LoopCondition(s1, c.L) THEN ExitLoop(c1) ELSE StartPlanning(c1)
    ELSE StartPlanning(c)

\* done_action[action_index].update({"status": st})
SetStatus(s, idx, st) == [s EXCEPT !.done_action[idx].status = st]

\* _loop lines 220-232: the end-goal scan and the end of the iteration
EndOfIteration(c) ==
    LET s1 == IF "end" \in Range(c.s.goal_list)
              THEN [c.s EXCEPT !.should_continue = FALSE] ELSE c.s
        c1 == [c EXCEPT !.s = s1, !.L = ClearLocals(@)]
    IN  IF s1.should_continue THEN [c1 EXCEPT !.L.pc = "tick_sleep"]
        ELSE LoopTop(c1)

\* _handle_action lines 269-274, then the rest of the iteration
PostHandler(c, ok) ==
    LET s1 == IF ok
              THEN [SetStatus(c.s, c.L.action_index, "done") EXCEPT
                       !.last_successful_reply_action =
                           IF c.L.action \in ReplyActions THEN @ ELSE "none"]
              ELSE c.s
        L1 == IF ok /\ c.L.action \in TerminalActions
              THEN [c.L EXCEPT !.ended_by = c.L.action] ELSE c.L
    IN  EndOfIteration([c EXCEPT !.s = s1, !.L = L1])

\* _loop lines 227-229: an exception escaped the iteration
IterationError_EndsTask(c) == ExitLoop(c)

IterationError(c) == [c EXCEPT !.L = [ClearLocals(@) EXCEPT !.pc = "error_sleep"]]

\* The new-message predicate of _do_wait / _do_wait_listening (check_new_message)
CheckNewMessage(s, L) == L.interrupt \/ s.new_messages_count > L.initial

\* _handle_reply_action lines 374-384: the attempt failed for good
AppendFallbackWait(s) ==
    [s EXCEPT !.done_action = Append(@, [status |-> "done"])]

ReplyFail(c) ==
    LET s1 == [SetStatus(c.s, c.L.action_index, "recall") EXCEPT
                   !.last_successful_reply_action = "none"]
    IN  IF c.L.need_replan THEN PostHandler([c EXCEPT !.s = s1], FALSE)
        ELSE LET s2 == [s1 EXCEPT !.state = "waiting"]
                 L2 == [c.L EXCEPT !.initial = s2.new_messages_count]
             IN  IF CheckNewMessage(s2, L2)
                 THEN PostHandler([c EXCEPT !.s = AppendFallbackWait(s2),
                                            !.L = [L2 EXCEPT !.replanRejected = FALSE]], FALSE)
                 ELSE [c EXCEPT !.s = s2, !.L = [L2 EXCEPT !.pc = "fallback_waiting"]]

\* _handle_reply_action line 286: the retry loop goes on
RetryGuard_OffByOne(attempt, suitable) == attempt <= max_retries /\ ~suitable

RetryGuard(attempt, suitable) == attempt < max_retries /\ ~suitable

\* _handle_reply_action lines 286-299: the head of the retry loop, up to the
\* await on the generation task
ReplyLoopHead(c) ==
    IF RetryGuard(c.L.attempt, FALSE)
    THEN IF c.L.interrupt
         THEN PostHandler([c EXCEPT !.s = SetStatus(@, c.L.action_index, "recall")], FALSE)
         ELSE [c EXCEPT !.s.state = "generating",
                        !.L = [@ EXCEPT !.attempt = @ + 1, !.pc = "generating",
                                        !.subtasks = @ \cup {"generate"},
                                        !.genCalls = @ + 1,
                                        !.genBase = c.g.ingested]]
    ELSE ReplyFail(c)

\* _handle_block_and_ignore: ignore_until = now + block_ignore_seconds
HandleBlockAndIgnore_KeepsLooping(s) == [s EXCEPT !.ignore_until = "future"]

HandleBlockAndIgnore(s) ==
    [s EXCEPT !.ignore_until = "future", !.should_continue = FALSE]

\* _loop lines 214-218 and _handle_action lines 246-267: fold, record the
\* action with status start, and run its handler up to its first await
Dispatch(c) ==
    LET a == c.L.action
        s0 == IF c.L.initial > 0 /\ a \in ReplyActions
              THEN [ClearUnprocessedMessages(c.s) EXCEPT !.new_messages_count = 0]
              ELSE c.s
        s1 == [s0 EXCEPT !.done_action = Append(@, [status |-> "start"])]
        L1 == [c.L EXCEPT !.action_index = Len(s1.done_action),
                          !.dispBase = c.g.ingested]
        c1 == [c EXCEPT !.s = s1, !.L = L1]
    IN  CASE a \in ReplyActions -> ReplyLoopHead(c1)
          [] a = "fetch_knowledge" ->
                [c1 EXCEPT !.s.state = "fetching", !.L.pc = "fetching"]
          [] a = "rethink_goal" ->
                [c1 EXCEPT !.s.state = "rethinking", !.L.pc = "rethinking"]
          [] a \in {"wait", "listening"} ->
                LET s2 == [s1 EXCEPT !.state = IF a = "wait" THEN "waiting" ELSE "listening"]
                    L2 == [L1 EXCEPT !.initial = s2.new_messages_count]
                IN  IF CheckNewMessage(s2, L2)
                    THEN PostHandler([c1 EXCEPT !.s = s2, !.L = L2], TRUE)
                    ELSE [c1 EXCEPT !.s = s2,
                                    !.L = [L2 EXCEPT !.pc = IF a = "wait" THEN "waiting"
                                                                          ELSE "listening"]]
          [] a = "say_goodbye" ->
                [c1 EXCEPT !.s.state = "generating", !.L.pc = "goodbye_generating"]
          [] a = "end_conversation" ->
                PostHandler([c1 EXCEPT !.s.should_continue = FALSE], TRUE)
          [] a = "block_and_ignore" ->
                PostHandler([c1 EXCEPT !.s = HandleBlockAndIgnore(@),
                                       !.L.didBlock = TRUE], TRUE)
          [] OTHER -> PostHandler(c1, FALSE)

\* ---------------------------------------------------------------------------
\* Steps of the loop task.  A task whose cancellation was requested receives
\* CancelledError at its next wake-up: at most awaits it propagates and ends
\* the task (LoopCancelled); at the awaits wrapped in
\* "except asyncio.CancelledError: pass" it is swallowed and the code goes on.
\* ---------------------------------------------------------------------------
SwallowPcs == {"plan_settle", "gen_settle"}

Cur(l) == Ctx(session, loops[l], ghost)
Wake(l) == Ctx(session, [loops[l] EXCEPT !.cancelReq = FALSE], ghost)

At(l, pcs) == loops[l].pc \in pcs /\ ~loops[l].cancelReq

Apply(l, c) ==
    /\ session' = c.s
    /\ loops' = [loops EXCEPT ![l] = c.L]
    /\ ghost' = c.g
    /\ UNCHANGED <<mgr, chatter, standalone>>

\* The task starts, or wakes from one of the sleeps that end an iteration
\* (lines 148, 191, 211, 232), and evaluates the while condition.
LoopResume(l) ==
    /\ At(l, {"start", "ignore_sleep", "restart_sleep", "tick_sleep"})
    /\ Apply(l, LoopTop(Cur(l)))

\* lines 229-232: the sleep after an exception ends
ErrorSleepDone(l) ==
    /\ At(l, {"error_sleep"})
    /\ Apply(l, IF session.should_continue
                THEN [Cur(l) EXCEPT !.L.pc = "tick_sleep"]
                ELSE LoopTop(Cur(l)))

\* lines 168-195: the planner returns an action of its vocabulary
PlanDone(l, a) ==
    /\ At(l, {"planning"})
    /\ ~loops[l].interrupt
    /\ Len(session.done_action) < MaxActions
    /\ Apply(l, [Cur(l) EXCEPT !.L.pc = "plan_settle", !.L.action = a,
                               !.L.subtasks = @ \ {"plan"}])

\* line 195: the planning task ended with an exception
PlanRaise(l) ==
    /\ At(l, {"planning"})
    /\ ~loops[l].interrupt
    /\ Apply(l, IterationError([Cur(l) EXCEPT !.L.subtasks = @ \ {"plan"}]))

\* lines 174-192: the interrupt event was set before the result was taken
PlanInterrupted_KeepsLast(l) ==
    /\ At(l, {"planning"})
    /\ loops[l].interrupt
    /\ Apply(l, [Cur(l) EXCEPT !.L.pc = "restart_sleep",
                               !.L.subtasks = @ \ {"plan"}])

PlanInterrupted(l) ==
    /\ At(l, {"planning"})
    /\ loops[l].interrupt
    /\ Apply(l, [Cur(l) EXCEPT !.s.last_successful_reply_action = "none",
                               !.L.pc = "restart_sleep",
                               !.L.subtasks = @ \ {"plan"}])

\* line 208: enough messages were counted during planning to plan again
ReplanThreshold(current, initial) == current > initial

\* lines 197-218: after the pending interrupt waiter is cancelled, compare the
\* counters and either plan again or dispatch the action
PlanSettle(l) ==
    /\ loops[l].pc = "plan_settle"
    /\ Apply(l, LET c == Wake(l)
                IN  IF ReplanThreshold(session.new_messages_count, c.L.initial)
                    THEN [c EXCEPT !.s.last_successful_reply_action = "none",
                                   !.L.pc = "restart_sleep"]
                    ELSE Dispatch(c))

\* lines 302-341: the generation task ends: an exception, no text, or a text
\* of one or two lines
GenDone(l, res, nlines) ==
    /\ At(l, {"generating"})
    /\ ~loops[l].interrupt
    /\ Apply(l, LET c == [Cur(l) EXCEPT !.L.subtasks = @ \ {"generate"}]
                IN  IF res = "text"
                    THEN [c EXCEPT !.L.pc = "gen_settle", !.L.lines = nlines]
                    ELSE ReplyLoopHead(c))

\* lines 308-324: the interrupt event was set while generating
GenInterrupted(l) ==
    /\ At(l, {"generating"})
    /\ loops[l].interrupt
    /\ Apply(l, PostHandler([Cur(l) EXCEPT
                    !.s = SetStatus(@, loops[l].action_index, "recall"),
                    !.L.subtasks = @ \ {"generate"}], FALSE))

\* lines 328-351: the pending interrupt waiter is cancelled and the checker called
GenSettle(l) ==
    /\ loops[l].pc = "gen_settle"
    /\ Apply(l, [Wake(l) EXCEPT !.s.state = "checking", !.L.pc = "checking"])

\* _check_new_messages_after_planning, line 238
CheckNewMessagesAfterPlanning(s) == s.new_messages_count > NEW_MESSAGE_SEND_THRESHOLD

\* lines 361-368: the accepted reply is sent unless the interrupt is set or
\* enough new messages were counted; _send_reply runs up to its first send
SendDecision(c) ==
    IF c.L.interrupt
    THEN PostHandler([c EXCEPT !.s = SetStatus(@, c.L.action_index, "recall")], FALSE)
    ELSE IF CheckNewMessagesAfterPlanning(c.s)
    THEN PostHandler([c EXCEPT !.s = [SetStatus(@, c.L.action_index, "recall") EXCEPT
                                         !.last_successful_reply_action = "none"]], FALSE)
    ELSE [c EXCEPT !.L.pc = "sending", !.L.sendBase = c.g.ingested]

\* lines 352-359: ReplyChecker.check returns (suitable, reason, need_replan) or raises
\* lines 357-359: the checker raised; the retry loop is left with is_suitable false
CheckRaised_FailOpen(c) == SendDecision(c)

CheckRaised(c) == ReplyFail(c)

\* The text of a generation is named by the number of its attempt (0: no text).
\* final_reply is the local of the handler; acceptedText records the text that
\* ReplyChecker.check accepted in this action.
CheckDone(l, verdict) ==
    /\ At(l, {"checking"})
    /\ Apply(l, LET c == Cur(l)
                    reply_content == c.L.attempt
                IN  CASE verdict \in {"accept", "accept_replan"} ->
                            SendDecision([c EXCEPT !.L.need_replan = (verdict = "accept_replan"),
                                                   !.L.final_reply = reply_content,
                                                   !.L.acceptedText = reply_content])
                      [] verdict = "reject_replan" ->
                            ReplyFail([c EXCEPT !.L.need_replan = TRUE,
                                                !.L.replanRejected = TRUE])
                      [] verdict = "reject_retry" ->
                            ReplyLoopHead([c EXCEPT !.L.softRejects = @ + 1])
                      [] OTHER -> CheckRaised(c))

\* lines 369-372 and 484-485: what follows _send_reply
AfterSend_KeepsLooping(c) == PostHandler(c, TRUE)

AfterSend(c) ==
    IF c.L.action \in ReplyActions
    THEN PostHandler([c EXCEPT !.s.last_successful_reply_action = c.L.action], TRUE)
    ELSE PostHandler([c EXCEPT !.s.should_continue = FALSE], TRUE)

\* _send_reply lines 393-402: one line is sent and recorded, or the send raises
SendDone(l, ok) ==
    /\ At(l, {"sending"})
    /\ Apply(l, LET c == Cur(l)
                IN  IF ~ok THEN AfterSend(c)
                    ELSE LET c1 == [c EXCEPT !.s = AddBotMessage(@), !.L.lines = @ - 1]
                         IN  IF c1.L.lines > 0 THEN c1 ELSE AfterSend(c1))

\* What follows the Waiter in the three places it is used
AfterWait(c) ==
    IF c.L.pc = "fallback_waiting"
    THEN PostHandler([c EXCEPT !.s = AppendFallbackWait(@),
                               !.L.replanRejected = FALSE], FALSE)
    ELSE PostHandler(c, TRUE)

WaitPcs == {"waiting", "listening", "fallback_waiting"}

\* Waiter.wait lines 46-49: a poll finds the predicate true
WaitActivity(l) ==
    /\ At(l, WaitPcs)
    /\ CheckNewMessage(session, loops[l])
    /\ Apply(l, AfterWait(Cur(l)))

\* Waiter.wait lines 51-58: a poll finds no activity and the timeout passed
WaitTimeout(l) ==
    /\ At(l, WaitPcs)
    /\ ~CheckNewMessage(session, loops[l])
    /\ Len(session.goal_list) < MaxGoals
    /\ Apply(l, AfterWait([Cur(l) EXCEPT !.s.goal_list =
                    Append(@, IF loops[l].pc = "listening" THEN "timeout_listen"
                                                           ELSE "timeout_wait")]))

\* KnowledgeFetcher.fetch returns a text: nothing, its "not found" text, or
\* knowledge; or it raises
NotFoundText == "not found"
FetchTexts == {"", NotFoundText, "knowledge"}
FetchResults == FetchTexts \cup {"raise"}

\* _handle_fetch_knowledge line 413: the text is recorded
KnowledgeFound(knowledge_text) == knowledge_text # "" /\ knowledge_text # NotFoundText

\* lines 417-422: append, keep the last MAX_KNOWLEDGE items
RecordKnowledge(list, knowledge_text) ==
    LET l1 == Append(list, knowledge_text)
    IN  IF Len(l1) > MAX_KNOWLEDGE
        THEN SubSeq(l1, Len(l1) - MAX_KNOWLEDGE + 1, Len(l1)) ELSE l1

\* _handle_fetch_knowledge lines 406-428: the fetch raises (recall, False), or
\* returns a text, recorded if it is knowledge (True in either case, line 423)
FetchDone(l, res) ==
    /\ At(l, {"fetching"})
    /\ Apply(l, LET c == Cur(l)
                IN  IF res = "raise"
                    THEN PostHandler([c EXCEPT
                            !.s = SetStatus(@, loops[l].action_index, "recall")], FALSE)
                    ELSE IF KnowledgeFound(res)
                    THEN PostHandler([c EXCEPT
                            !.s.knowledge_list = RecordKnowledge(@, res)], TRUE)
                    ELSE PostHandler(c, TRUE))

\* GoalAnalyzer.analyze_goal / _parse_goal_response: what it does to goal_list
RethinkResults ==
    {<<"keep", <<>>>>, <<"replace", <<>>>>, <<"replace", <<"other">>>>,
     <<"replace", <<"end">>>>, <<"append", <<"other">>>>, <<"append", <<"end">>>>}

AnalyzeGoal(goals, r) ==
    CASE r[1] = "replace" -> r[2]
      [] r[1] = "append" -> goals \o r[2]
      [] OTHER -> goals

\* _handle_rethink_goal
RethinkDone(l, r) ==
    /\ At(l, {"rethinking"})
    /\ Len(AnalyzeGoal(session.goal_list, r)) <= MaxGoals
    /\ Apply(l, PostHandler([Cur(l) EXCEPT !.s.goal_list = AnalyzeGoal(@, r)], TRUE))

RethinkRaise_ClearsGoals(l) ==
    /\ At(l, {"rethinking"})
    /\ Apply(l, PostHandler([Cur(l) EXCEPT
                    !.s = [SetStatus(@, loops[l].action_index, "recall") EXCEPT
                              !.goal_list = <<>>]], FALSE))

\* analyze_goal raises: in _build_prompt_params (goal_analyzer.py line 242) or
\* in the extraction of _parse_goal_response (line 478), both before any
\* assignment to goal_list
RethinkRaise(l) ==
    /\ At(l, {"rethinking"})
    /\ Apply(l, PostHandler([Cur(l) EXCEPT
                    !.s = SetStatus(@, loops[l].action_index, "recall")], FALSE))

\* _handle_say_goodbye lines 480-485: the farewell generation returns or raises
GoodbyeGenDone(l, res, nlines) ==
    /\ At(l, {"goodbye_generating"})
    /\ Apply(l, CASE res = "text" ->
                        [Cur(l) EXCEPT !.L.pc = "sending", !.L.lines = nlines,
                                       !.L.genBase = ghost.ingested,
                                       !.L.sendBase = ghost.ingested]
                  [] res = "empty" ->
                        PostHandler([Cur(l) EXCEPT !.s.should_continue = FALSE], TRUE)
                  [] OTHER -> IterationError(Cur(l)))

\* CancelledError propagates out of _loop: the task ends where it was
LoopCancelled(l) ==
    /\ loops[l].cancelReq
    /\ loops[l].pc \notin SwallowPcs \cup {"none", "done"}
    /\ loops' = [loops EXCEPT ![l] = [ClearLocals(@) EXCEPT !.pc = "done",
                                                            !.interrupt = FALSE,
                                                            !.cancelReq = FALSE]]
    /\ UNCHANGED <<session, mgr, chatter, ghost, standalone>>

\* lines 298-305: a generation task whose loop task was cancelled at the await
\* of asyncio.wait goes on by itself until the model call returns
OrphanGenerationEnds(l) ==
    /\ loops[l].pc = "done"
    /\ "generate" \in loops[l].subtasks
    /\ loops' = [loops EXCEPT ![l].subtasks = @ \ {"generate"}]
    /\ UNCHANGED <<session, mgr, chatter, ghost, standalone>>

\* ---------------------------------------------------------------------------
\* ConversationLoopManager
\* ---------------------------------------------------------------------------
FreeSlots == {l \in Loops : loops[l].pc \in {"none", "done"} /\ mgr.registered # l}

\* get_or_create_loop line 620: the registered loop is reused
LoopReusable_Never(L) == FALSE

LoopReusable_Always(L) == TRUE

LoopReusable(L) == L.running

\* ConversationLoop.start lines 116-120 on a new loop object
NewLoop == [NoLoop EXCEPT !.pc = "start", !.running = TRUE]

\* get_or_create_loop lines 616-630 (the lock is free): the registry and the
\* loop objects after the call
GetOrCreateLoop(m, ls) ==
    IF m.registered # 0 /\ LoopReusable(ls[m.registered])
    THEN [m |-> m, ls |-> ls]
    ELSE LET l == CHOOSE x \in {y \in Loops : ls[y].pc \in {"none", "done"}
                                              /\ m.registered # y} : TRUE
         IN  [m |-> [m EXCEPT !.registered = l],
              ls |-> [ls EXCEPT ![l] = NewLoop]]

CanGetOrCreate ==
    (mgr.registered # 0 /\ LoopReusable(loops[mgr.registered])) \/ FreeSlots # {}

\* ConversationLoop.stop lines 124-129: the flags are set and the task cancelled
StopFlags_NoCancel(L) == [L EXCEPT !.interrupt = TRUE]

StopFlags(L) ==
    [L EXCEPT !.running = FALSE, !.interrupt = TRUE,
              !.subtasks = @ \ {"plan"},
              !.cancelReq = (L.pc \notin {"none", "done"})]

\* stop_loop / stop_all up to "await self._task" (lines 633-635, 639-641)
StopBegin ==
    /\ mgr.lock = "free"
    /\ mgr.registered # 0
    /\ LET l == mgr.registered
       IN  IF loops[l].pc = "done"
           THEN /\ loops' = [loops EXCEPT ![l] = DeadLoop]
                /\ mgr' = [mgr EXCEPT !.registered = 0]
           ELSE /\ loops' = [loops EXCEPT ![l] = StopFlags(@)]
                /\ mgr' = [mgr EXCEPT !.lock = "held"]
    /\ UNCHANGED <<session, chatter, ghost, standalone>>

\* stop_loop(user_id), lines 632-636
StopLoop == StopBegin

\* stop_all, lines 638-642: with one user it stops the same loop and clears the registry
StopAll == StopBegin

\* the task has ended: stop returns, the entry is removed, the lock released
StopEnd ==
    /\ mgr.lock # "free"
    /\ loops[mgr.registered].pc = "done"
    /\ loops' = [loops EXCEPT ![mgr.registered] = DeadLoop]
    /\ mgr' = [registered |-> 0, lock |-> "free"]
    /\ UNCHANGED <<session, chatter, ghost, standalone>>

\* ConversationLoop.notify_new_message on the registered loop
NotifyNewMessage ==
    /\ mgr.registered # 0
    /\ loops[mgr.registered].pc \notin {"none", "done"}
    /\ ~loops[mgr.registered].interrupt
    /\ loops' = [loops EXCEPT ![mgr.registered].interrupt = TRUE]
    /\ UNCHANGED <<session, mgr, chatter, ghost, standalone>>

\* ---------------------------------------------------------------------------
\* PrefrontalCortexChatter.execute
\* ---------------------------------------------------------------------------
RECURSIVE UserMsgs(_)
UserMsgs(ids) == IF ids = <<>> THEN <<>> ELSE <<UserMsg(Head(ids))>> \o UserMsgs(Tail(ids))

\* lines 131-134 and _load_initial_history: on the first run the history is
\* replaced by what the message store returns: the messages of the stream up to
\* now, which are the unread ones if the store already holds them.
LoadInitialHistory(s, unread, stored) ==
    IF s.history_loaded THEN s
    ELSE [s EXCEPT !.history_loaded = TRUE,
                   !.chat_history = IF stored THEN UserMsgs(unread) ELSE @]

\* lines 146-171: record the unread messages, set should_continue, get the loop
\* (when the manager lock is free), mark the messages read
ExecuteIngest(s, unread) ==
    [AddUserMessages(s, unread) EXCEPT !.should_continue = TRUE]

ExecuteGetLoop ==
    IF mgr.lock = "free"
    THEN /\ CanGetOrCreate
         /\ LET r == GetOrCreateLoop(mgr, loops)
            IN  mgr' = r.m /\ loops' = r.ls
         /\ chatter' = [chatter EXCEPT !.pc = "idle", !.unread = <<>>]
    ELSE /\ chatter' = [chatter EXCEPT !.pc = "wait_lock"]
         /\ UNCHANGED <<mgr, loops>>

\* lines 137-139: the ignore window is checked before anything is recorded
ExecuteIgnores(s) == s.ignore_until = "future"

\* execute is called with n new messages (and those left unread before);
\* stored: the message store already holds them; yields: save_session at line
\* 144 suspends (database backend).
Execute(n, stored, yields) ==
    /\ chatter.pc = "idle"
    /\ UNCHANGED standalone
    /\ chatter.arrived + n <= MaxMsgs
    /\ LET new == [i \in 1..n |-> chatter.arrived + i]
           unread == chatter.unread \o new
           s1 == LoadInitialHistory(session, unread, stored)
       IN  /\ unread # <<>>
           /\ IF ExecuteIgnores(s1)
              THEN /\ session' = s1
                   /\ chatter' = [chatter EXCEPT !.unread = unread, !.arrived = @ + n]
                   /\ ghost' = [ghost EXCEPT !.arrivedInWindow = @ \cup Range(new)]
                   /\ UNCHANGED <<mgr, loops>>
              ELSE IF s1.state = "waiting" /\ yields
              THEN /\ session' = [s1 EXCEPT !.state = "analyzing"]
                   /\ chatter' = [pc |-> "saving", unread |-> unread,
                                  arrived |-> chatter.arrived + n]
                   /\ UNCHANGED <<mgr, loops, ghost>>
              ELSE /\ session' = ExecuteIngest(
                          IF s1.state = "waiting" THEN [s1 EXCEPT !.state = "analyzing"]
                          ELSE s1, unread)
                   /\ ghost' = [ghost EXCEPT !.ingested = @ + Len(unread)]
                   /\ LET ch == [chatter EXCEPT !.unread = unread, !.arrived = @ + n]
                      IN  IF mgr.lock = "free"
                          THEN /\ CanGetOrCreate
                               /\ LET r == GetOrCreateLoop(mgr, loops)
                                  IN  mgr' = r.m /\ loops' = r.ls
                               /\ chatter' = [ch EXCEPT !.pc = "idle", !.unread = <<>>]
                          ELSE /\ chatter' = [ch EXCEPT !.pc = "wait_lock"]
                               /\ UNCHANGED <<mgr, loops>>

\* execute resumes after save_session (line 144)
ExecuteAfterSave ==
    /\ chatter.pc = "saving"
    /\ UNCHANGED standalone
    /\ session' = ExecuteIngest(session, chatter.unread)
    /\ ghost' = [ghost EXCEPT !.ingested = @ + Len(chatter.unread)]
    /\ ExecuteGetLoop

\* execute obtains the manager lock it waited for (line 171)
ExecuteAfterLock ==
    /\ chatter.pc = "wait_lock"
    /\ mgr.lock = "free"
    /\ ExecuteGetLoop
    /\ UNCHANGED <<session, ghost, standalone>>

\* the clock passes ignore_until_timestamp
IgnoreExpires ==
    /\ session.ignore_until = "future"
    /\ session' = [session EXCEPT !.ignore_until = "past"]
    /\ UNCHANGED <<loops, mgr, chatter, ghost, standalone>>

\* ---------------------------------------------------------------------------
GenResults == {"raise", "empty", "text"}
CheckVerdicts == {"accept", "accept_replan", "reject_replan", "reject_retry", "raise"}
LineCounts == {1, 2}

LoopStep(l) ==
    \/ LoopResume(l)
    \/ ErrorSleepDone(l)
    \/ \E a \in valid_actions : PlanDone(l, a)
    \/ PlanRaise(l)
    \/ PlanInterrupted(l)
    \/ PlanSettle(l)
    \/ \E res \in GenResults, n \in LineCounts : GenDone(l, res, n)
    \/ GenInterrupted(l)
    \/ GenSettle(l)
    \/ \E v \in CheckVerdicts : CheckDone(l, v)
    \/ \E ok \in BOOLEAN : SendDone(l, ok)
    \/ WaitActivity(l)
    \/ WaitTimeout(l)
    \/ \E res \in FetchResults : FetchDone(l, res)
    \/ \E r \in RethinkResults : RethinkDone(l, r)
    \/ RethinkRaise(l)
    \/ \E res \in GenResults, n \in LineCounts : GoodbyeGenDone(l, res, n)
    \/ LoopCancelled(l)
    \/ OrphanGenerationEnds(l)

Next ==
    \/ \E l \in Loops : LoopStep(l)
    \/ \E n \in 0..MaxMsgs, stored \in BOOLEAN, yields \in BOOLEAN : Execute(n, stored, yields)
    \/ ExecuteAfterSave
    \/ ExecuteAfterLock
    \/ StopLoop
    \/ StopAll
    \/ StopEnd
    \/ NotifyNewMessage
    \/ IgnoreExpires

Spec == Init /\ [][Next]_vars

\* SessionManager.get_session loaded the session of an earlier run, whose
\* conversation_info (from_dict, models.py lines 147-155) holds the goal that
\* ended that conversation
InitResumed ==
    /\ session = [InitSession EXCEPT !.goal_list = <<"end">>]
    /\ loops = [l \in Loops |-> NoLoop]
    /\ mgr = [registered |-> 0, lock |-> "free"]
    /\ chatter = [pc |-> "idle", unread |-> <<>>, arrived |-> 0]
    /\ ghost = [ingested |-> 0, arrivedInWindow |-> {}, planned |-> 0]
    /\ storage = NoStorage
    /\ checker = NoChecker
    /\ waiter = NoWaiter
    /\ planner = NoPlanner
    /\ sm = NoManager
    /\ obs = NoObs

SpecResumed == InitResumed /\ [][Next]_vars

\* ---------------------------------------------------------------------------
\* ReplyChecker (replyer.py) on the chat history as the session records it.
\* A text is the sequence of its characters.
\* ---------------------------------------------------------------------------
MaxHistory == 2
MAX_REPLY_LENGTH == 500
similarity_threshold_percent == 90

Weather == <<"jin", "tian", "tian", "qi", "bu", "cuo">>
WeatherToo == Weather \o <<"ya">>
Hello == <<"ni", "hao">>
Blank == <<" ">>
IAmAI == <<"wo", "shi", "A", "I">>

Replies == {Weather, WeatherToo, Hello, Blank, <<>>, IAmAI}
Lines == {Weather, Hello}
BotAccounts == {<<>>, <<"1", "0">>}
LlmOutcomes == {"no_model", "call_failed", "raise", "suitable",
                "suitable_replan", "unsuitable", "unparseable", "not_an_object"}

\* the outcomes in which the check itself failed: no answer, an exception in
\* the call, an answer that is no JSON, JSON that is no object
LlmFailures == {"call_failed", "raise", "unparseable", "not_an_object"}

inappropriate_patterns ==
    { <<"zuo", "wei", "A", "I">>,
      <<"zuo", "wei", "yi", "ge", "A", "I">>,
      <<"zuo", "wei", "ren", "gong", "zhi", "neng">>,
      <<"wo", "shi", "A", "I">>,
      <<"wo", "shi", "yi", "ge", "A", "I">>,
      <<"wo", "shi", "ren", "gong", "zhi", "neng">>,
      <<"bao", "qian", ",", "wo", "wu", "fa">>,
      <<"dui", "bu", "qi", ",", "wo", "bu", "neng">> }

\* session.py: the entries add_user_message and add_bot_message record
UserEntry(content) ==
    [type |-> "user_message", content |-> content, user_name |-> <<"u">>,
     user_id |-> <<"7">>, time |-> 0]

BotEntry(content) == [type |-> "bot_message", content |-> content, time |-> 0]

\* dict.get(key, default)
Get(d, key, default) == IF key \in DOMAIN d THEN d[key] ELSE default

\* str.strip()
RECURSIVE LStrip(_)
LStrip(s) == IF s # <<>> /\ Head(s) = " " THEN LStrip(Tail(s)) ELSE s

RECURSIVE RStrip(_)
RStrip(s) ==
    IF s # <<>> /\ s[Len(s)] = " " THEN RStrip(SubSeq(s, 1, Len(s) - 1)) ELSE s

Strip(s) == RStrip(LStrip(s))

\* pattern in reply
Contains(s, pattern) ==
    \E i \in 1..(Len(s) - Len(pattern) + 1) :
        SubSeq(s, i, i + Len(pattern) - 1) = pattern

\* difflib.SequenceMatcher: the length of the block that matches from a[i], b[j]
\* inside a[alo..ahi-1], b[blo..bhi-1]
Min(x, y) == IF x < y THEN x ELSE y

BlockLen(a, i, ahi, b, j, bhi) ==
    LET room == Min(ahi - i, bhi - j)
    IN  CHOOSE k \in 0..room :
            /\ \A d \in 0..(k - 1) : a[i + d] = b[j + d]
            /\ k = room \/ a[i + k] # b[j + k]

\* find_longest_match: the longest block, the earliest in a, then the earliest in b
FindLongestMatch(a, alo, ahi, b, blo, bhi) ==
    LET Pairs == (alo..(ahi - 1)) \X (blo..(bhi - 1))
        K(p) == BlockLen(a, p[1], ahi, b, p[2], bhi)
        Better(p, q) ==
            \/ K(p) > K(q)
            \/ K(p) = K(q) /\ p[1] < q[1]
            \/ K(p) = K(q) /\ p[1] = q[1] /\ p[2] <= q[2]
        best == CHOOSE p \in Pairs : \A q \in Pairs : Better(p, q)
    IN  [i |-> best[1], j |-> best[2], k |-> K(best)]

\* get_matching_blocks: the number of matched characters
RECURSIVE Matches(_, _, _, _, _, _)
Matches(a, alo, ahi, b, blo, bhi) ==
    IF alo >= ahi \/ blo >= bhi THEN 0
    ELSE LET m == FindLongestMatch(a, alo, ahi, b, blo, bhi)
         IN  IF m.k = 0 THEN 0
             ELSE m.k + Matches(a, alo, m.i, b, blo, m.j)
                      + Matches(a, m.i + m.k, ahi, b, m.j + m.k, bhi)

\* ratio() > similarity_threshold, with ratio() = 2 * matches / (len(a) + len(b))
\* and 1.0 for two empty texts
TooSimilar(a, b) ==
    LET total == Len(a) + Len(b)
    IN  IF total = 0 THEN TRUE
        ELSE 200 * Matches(a, 1, Len(a) + 1, b, 1, Len(b) + 1)
                 > similarity_threshold_percent * total

\* _get_recent_bot_messages: the content of the last two entries, newest first,
\* whose sender.user_id is the account of the bot
RECURSIVE GetRecentBotMessages(_, _)
GetRecentBotMessages(chat_history, bot_qq) ==
    IF chat_history = <<>> THEN <<>>
    ELSE LET msg == chat_history[Len(chat_history)]
             sender == Get(msg, "sender", <<>>)
             user_id == Get(sender, "user_id", <<>>)
             content == Get(msg, "processed_plain_text", Get(msg, "content", <<>>))
             older == GetRecentBotMessages(
                          SubSeq(chat_history, 1, Len(chat_history) - 1), bot_qq)
         IN  IF user_id = bot_qq /\ content # <<>>
             THEN <<content>> \o (IF older = <<>> THEN <<>> ELSE <<older[1]>>)
             ELSE older

Verdict(suitable, need_replan) == [suitable |-> suitable, need_replan |-> need_replan]

\* _llm_check and _parse_llm_response, by the outcome of the model call
LlmCheck(outcome, retry_count) ==
    CASE outcome \in {"no_model", "call_failed"} -> Verdict(TRUE, FALSE)
      [] outcome = "raise" -> Verdict(FALSE, retry_count >= max_retries)
      \* _fallback_parse on a text without its keywords (lines 1037-1043)
      [] outcome = "unparseable" -> Verdict(TRUE, FALSE)
      \* result.get raises AttributeError inside the try of _llm_check (line 1014)
      [] outcome = "not_an_object" -> Verdict(FALSE, retry_count >= max_retries)
      [] outcome = "suitable" -> Verdict(TRUE, FALSE)
      [] outcome = "suitable_replan" -> Verdict(TRUE, TRUE)
      [] outcome = "unsuitable" -> Verdict(FALSE, retry_count >= max_retries)

\* check lines reached only with the checker and its LLM check enabled: a
\* call with another configuration never asks the model
LlmOutcomesOf(config) ==
    IF config.enabled /\ config.use_llm_check THEN LlmOutcomes ELSE {"not_called"}

\* ReplyChecker.check
Check(config, reply, chat_history, retry_count, outcome) ==
    IF ~config.enabled THEN Verdict(TRUE, FALSE)
    ELSE IF Strip(reply) = <<>> THEN Verdict(FALSE, TRUE)
    ELSE IF Len(reply) > MAX_REPLY_LENGTH THEN Verdict(FALSE, TRUE)
    ELSE IF \E pattern \in inappropriate_patterns : Contains(reply, pattern)
         THEN Verdict(FALSE, TRUE)
    ELSE LET bot_messages == GetRecentBotMessages(chat_history, config.bot_qq)
         IN  IF bot_messages # <<>> /\ reply = bot_messages[1]
                 THEN Verdict(FALSE, TRUE)
             ELSE IF bot_messages # <<>> /\ TooSimilar(reply, bot_messages[1])
                 THEN Verdict(FALSE, TRUE)
             ELSE IF config.use_llm_check THEN LlmCheck(outcome, retry_count)
             ELSE Verdict(TRUE, FALSE)

Configs == [enabled : BOOLEAN, use_llm_check : BOOLEAN, bot_qq : BotAccounts]

InitChecker ==
    /\ InitMain
    /\ obs = NoObs
    /\ storage = NoStorage
    /\ waiter = NoWaiter
    /\ planner = NoPlanner
    /\ sm = NoManager
    /\ \E config \in Configs :
           checker = [pc |-> "idle", config |-> config, chat_history |-> <<>>,
                      reply |-> <<>>, retry_count |-> 0, outcome |-> "none",
                      verdict |-> Verdict(FALSE, FALSE)]

\* PFCSession.add_bot_message: a sent reply is recorded
RecordBotMessage(content) ==
    /\ Len(checker.chat_history) < MaxHistory
    /\ checker' = [checker EXCEPT !.pc = "idle",
                                  !.chat_history = Append(@, BotEntry(content))]
    /\ UNCHANGED <<mainVars, waiter, planner, sm, storage, obs>>

\* PFCSession.add_user_message and the merge into the history
RecordUserMessage(content) ==
    /\ Len(checker.chat_history) < MaxHistory
    /\ checker' = [checker EXCEPT !.pc = "idle",
                                  !.chat_history = Append(@, UserEntry(content))]
    /\ UNCHANGED <<mainVars, waiter, planner, sm, storage, obs>>

\* _handle_reply_action lines 347-351: the checker is called on a candidate
CallCheck(reply, retry_count, outcome) ==
    /\ outcome \in LlmOutcomesOf(checker.config)
    /\ checker' = [checker EXCEPT
           !.pc = "checked", !.reply = reply, !.retry_count = retry_count,
           !.outcome = outcome,
           !.verdict = Check(checker.config, reply, checker.chat_history,
                             retry_count, outcome)]
    /\ UNCHANGED <<mainVars, waiter, planner, sm, storage, obs>>

NextChecker ==
    \/ \E content \in Lines : RecordBotMessage(content)
    \/ \E content \in Lines : RecordUserMessage(content)
    \/ \E reply \in Replies, retry_count \in 0..(max_retries - 1),
          outcome \in LlmOutcomes \cup {"not_called"} :
              CallCheck(reply, retry_count, outcome)

SpecChecker == InitChecker /\ [][NextChecker]_vars

\* ---------------------------------------------------------------------------
\* Waiter (conversation_loop.py, waiter.py) with its clock, in whole seconds.
\* ---------------------------------------------------------------------------
MaxTimeout == 12
MaxDrift == 1
check_interval == 5

Timeouts == (0 - 1)..MaxTimeout
WaitKinds == {"wait", "wait_listening"}

\* the goal a timeout appends (lines 54-57, 76-79)
TimeoutGoal(kind) == IF kind = "wait" THEN "timeout_wait" ELSE "timeout_listen"

\* lines 52, 74: the timeout test
WaiterTimedOut_Late(elapsed_time, timeout_seconds) ==
    elapsed_time > timeout_seconds + 2 * check_interval

WaiterTimedOut(elapsed_time, timeout_seconds) == elapsed_time > timeout_seconds

\* wait_start_time = time.time() in a call of wait or wait_listening, with the
\* goals the conversation already has
InitWaiter ==
    /\ InitMain
    /\ obs = NoObs
    /\ storage = NoStorage
    /\ checker = NoChecker
    /\ planner = NoPlanner
    /\ sm = NoManager
    /\ \E kind \in WaitKinds, timeout_seconds \in Timeouts, goal_list \in {<<>>, <<"other">>} :
           waiter = [pc |-> "poll", kind |-> kind, timeout_seconds |-> timeout_seconds,
                     elapsed |-> 0, polls |-> 0, goal_list |-> goal_list,
                     goals_before |-> Len(goal_list), result |-> "none"]

\* lines 45-60: one pass of the while loop up to the sleep.  found: what
\* _check_new_message returns (false when the predicate raises); drift: the
\* time that passes before the clock is read
WaiterPoll(found, drift) ==
    /\ waiter.pc = "poll"
    /\ LET elapsed_time == waiter.elapsed + drift
       IN  waiter' =
             IF found
             THEN [waiter EXCEPT !.pc = "returned", !.polls = @ + 1, !.result = "false"]
             ELSE IF WaiterTimedOut(elapsed_time, waiter.timeout_seconds)
             THEN [waiter EXCEPT !.pc = "returned", !.polls = @ + 1,
                                 !.elapsed = elapsed_time, !.result = "true",
                                 !.goal_list = Append(@, TimeoutGoal(waiter.kind))]
             ELSE [waiter EXCEPT !.pc = "sleeping", !.polls = @ + 1,
                                 !.elapsed = elapsed_time]
    /\ UNCHANGED <<mainVars, checker, planner, sm, storage, obs>>

\* line 60: asyncio.sleep(check_interval) returns, not earlier than asked
WaiterSleepDone(drift) ==
    /\ waiter.pc = "sleeping"
    /\ waiter' = [waiter EXCEPT !.pc = "poll", !.elapsed = @ + check_interval + drift]
    /\ UNCHANGED <<mainVars, checker, planner, sm, storage, obs>>

NextWaiter ==
    \/ \E found \in BOOLEAN, drift \in 0..MaxDrift : WaiterPoll(found, drift)
    \/ \E drift \in 0..MaxDrift : WaiterSleepDone(drift)

SpecWaiter == InitWaiter /\ [][NextWaiter]_vars

\* the event loop runs the waiting task
FairSpecWaiter == SpecWaiter /\ WF_vars(NextWaiter)

\* line 60: the task that awaits the Waiter is cancelled; CancelledError is
\* raised at the sleep, the only await of the loop that suspends, and nothing
\* in wait / wait_listening catches it
WaiterCancelled_TimesOut ==
    /\ waiter.pc = "sleeping"
    /\ waiter' = [waiter EXCEPT !.pc = "cancelled",
                                !.goal_list = Append(@, TimeoutGoal(waiter.kind))]
    /\ UNCHANGED <<mainVars, checker, planner, sm, storage, obs>>

WaiterCancelled ==
    /\ waiter.pc = "sleeping"
    /\ waiter' = [waiter EXCEPT !.pc = "cancelled"]
    /\ UNCHANGED <<mainVars, checker, planner, sm, storage, obs>>

NextWaiterCancellable ==
    \/ NextWaiter
    \/ WaiterCancelled

\* a wait whose owner may cancel it
SpecWaiterCancellable == InitWaiter /\ [][NextWaiterCancellable]_vars

\* ---------------------------------------------------------------------------
\* ActionPlanner.plan (src/planner.py) exercised on its own, followed by the
\* dispatch of the action it returns.  A parsed JSON value is a record of its
\* kind and its text; a returned reason is the sequence of the fragments that
\* an f-string joins.
\* ---------------------------------------------------------------------------
Str(v) == [kind |-> "str", v |-> v]
JNull == [kind |-> "null", v |-> "None"]
JTrue == [kind |-> "bool", v |-> "True"]

\* the truth value Python gives a parsed JSON value
Truthy(x) == ~(x.kind = "null" \/ (x.kind = "str" /\ x.v = ""))

\* what the model may put under "action", "reason" and "say_bye"
ActionValues ==
    {Str(a) : a \in valid_actions \cup {"use_tool", "dance", ""}} \cup {JNull, JTrue}
ReasonValues == {Str("because"), Str(""), JNull}
SayByeValues == {Str("yes"), Str("YES"), Str("no"), Str(""), JNull, JTrue}

\* extract_json_from_text: no JSON found, a JSON array, or a JSON object with
\* any of the two keys
JsonTexts(k1, V1, k2, V2) ==
    {[json |-> "none", obj |-> <<>>], [json |-> "array", obj |-> <<>>],
     [json |-> "object", obj |-> <<>>]}
    \cup {[json |-> "object", obj |-> [k \in {k1} |-> v1]] : v1 \in V1}
    \cup {[json |-> "object", obj |-> [k \in {k2} |-> v2]] : v2 \in V2}
    \cup {[json |-> "object", obj |-> [k \in {k1, k2} |-> IF k = k1 THEN v1 ELSE v2]] :
              v1 \in V1, v2 \in V2}

\* llm_api.get_available_models / generate_with_model: no model configured,
\* success false or empty content, an exception, or a content
LlmReplies(texts) ==
    {[call |-> c, content |-> [json |-> "none", obj |-> <<>>]] :
         c \in {"no_model", "failed", "raise"}}
    \cup {[call |-> "ok", content |-> x] : x \in texts}

PlanReplies == LlmReplies(JsonTexts("action", ActionValues, "reason", ReasonValues))
EndReplies == LlmReplies(JsonTexts("say_bye", SayByeValues, "reason", ReasonValues))

\* utils.get_items_from_json: the default for every key when no JSON was
\* found, json_obj.get(key, default) otherwise; a list has no get
GetItemsFromJson(content, k1, k2, default) ==
    CASE content.json = "none" -> [raised |-> FALSE, items |-> <<default, default>>]
      [] content.json = "array" -> [raised |-> TRUE, items |-> <<default, default>>]
      [] OTHER -> [raised |-> FALSE,
                   items |-> <<Get(content.obj, k1, default), Get(content.obj, k2, default)>>]

Returned(action, reason) == [raised |-> FALSE, action |-> action, reason |-> reason]
NoResult == [raised |-> FALSE, action |-> "none", reason |-> <<>>]

\* str.lower on the texts that occur
Lower(s) == IF s = "YES" THEN "yes" ELSE s

\* plan lines 308-327: the validation of the action
PlanValidate(initial_action, initial_reason) ==
    IF ~(initial_action.kind = "str" /\ initial_action.v \in valid_actions)
    THEN Returned("wait", <<"(original action '", initial_action.v,
                           "' invalid, forced to wait) ", initial_reason>>)
    ELSE Returned(initial_action.v, <<initial_reason>>)

\* plan lines 293-302: the two items and their defaults
InitialAction(action_val) == IF Truthy(action_val) THEN action_val ELSE Str("wait")
InitialReason(reason_val) ==
    IF Truthy(reason_val) THEN reason_val.v ELSE "no reason given, waiting by default"

\* one call of plan on a session whose newest chat_history entry has a time
\* that is a number or None and whose goal_list is or is not a list of goals,
\* under a configuration
InitPlanner ==
    /\ InitMain
    /\ obs = NoObs
    /\ storage = NoStorage
    /\ checker = NoChecker
    /\ waiter = NoWaiter
    /\ sm = NoManager
    /\ \E enable_block_action \in BOOLEAN, msg_time \in {"float", "None"},
          goals_ok \in BOOLEAN :
           planner = [pc |-> "persona",
                      config |-> [enable_block_action |-> enable_block_action],
                      msg_time |-> msg_time, goals_ok |-> goals_ok,
                      personality_info |-> "none", goals_str |-> "none",
                      content |-> [json |-> "none", obj |-> <<>>],
                      initial_reason |-> "",
                      result |-> NoResult,
                      session |-> [ignore_until |-> "none", should_continue |-> TRUE]]

\* _ensure_personality_info lines 149-171: the persona block, or the one built
\* from the configuration when get_personality_block raises
PlannerEnsurePersonality(ok) ==
    /\ planner.pc = "persona"
    /\ planner' = [planner EXCEPT !.pc = "prompt",
                                  !.personality_info = IF ok THEN "individuality"
                                                             ELSE "config"]
    /\ UNCHANGED <<mainVars, checker, waiter, sm, storage, obs>>

\* plan lines 228-268: the prompt is built outside any try.  _build_goals_str
\* catches its own exceptions; _get_chat_history_text does not, and
\* _translate_timestamp subtracts the time of an entry from now
PlannerBuildPrompt ==
    /\ planner.pc = "prompt"
    /\ planner' = [planner EXCEPT
                      !.goals_str = IF planner.goals_ok THEN "goals" ELSE "error text",
                      !.pc = IF planner.msg_time = "None" THEN "raised" ELSE "llm"]
    /\ UNCHANGED <<mainVars, checker, waiter, sm, storage, obs>>

\* plan lines 272-331: the call of the model and the handling of its reply
PlannerLlmReturns(reply) ==
    /\ planner.pc = "llm"
    /\ LET items == GetItemsFromJson(reply.content, "action", "reason", Str("wait"))
           initial_action == InitialAction(items.items[1])
           initial_reason == InitialReason(items.items[2])
           done(r) == [planner EXCEPT !.pc = "returned", !.content = reply.content,
                                      !.result = r]
       IN  planner' =
             CASE reply.call = "no_model" -> done(Returned("wait", <<"no model config">>))
               [] reply.call = "failed" -> done(Returned("wait", <<"LLM call failed">>))
               [] reply.call = "raise" \/ items.raised ->
                      done(Returned("wait", <<"planning error, waiting: ", "detail">>))
               [] initial_action = Str("end_conversation") ->
                      [planner EXCEPT !.pc = "end_decision", !.content = reply.content,
                                      !.initial_reason = initial_reason]
               [] OTHER -> done(PlanValidate(initial_action, initial_reason))
    /\ UNCHANGED <<mainVars, checker, waiter, sm, storage, obs>>

\* _handle_end_decision lines 347-386
HandleEndDecision(initial_reason, reply) ==
    LET items == GetItemsFromJson(reply.content, "say_bye", "reason", Str("no"))
        say_bye_val == items.items[1]
        end_reason_val == items.items[2]
        end_decision_reason == IF Truthy(end_reason_val) THEN end_reason_val.v
                               ELSE "no reason given"
    IN  CASE reply.call # "ok" \/ items.raised ->
                 Returned("end_conversation", <<initial_reason>>)
          [] Truthy(say_bye_val) /\ say_bye_val.kind # "str" ->
                 Returned("end_conversation", <<initial_reason>>)
          [] Lower((IF Truthy(say_bye_val) THEN say_bye_val ELSE Str("no")).v) = "yes" ->
                 Returned("say_goodbye", <<"farewell decided: ", end_decision_reason,
                                           " (original end reason: ", initial_reason, ")">>)
          [] OTHER -> Returned("end_conversation", <<initial_reason>>)

PlannerEndDecision(reply) ==
    /\ planner.pc = "end_decision"
    /\ planner' = [planner EXCEPT !.pc = "returned",
                                  !.result = HandleEndDecision(planner.initial_reason, reply)]
    /\ UNCHANGED <<mainVars, checker, waiter, sm, storage, obs>>

\* _handle_action lines 253-267 on the returned action: the handler of
\* block_and_ignore, or a handler that leaves ignore_until alone
PlannerDispatch ==
    /\ planner.pc = "returned"
    /\ planner' = [planner EXCEPT
                      !.pc = "handled",
                      !.session = IF planner.result.action = "block_and_ignore"
                                  THEN HandleBlockAndIgnore(@) ELSE @]
    /\ UNCHANGED <<mainVars, checker, waiter, sm, storage, obs>>

NextPlanner ==
    \/ \E ok \in BOOLEAN : PlannerEnsurePersonality(ok)
    \/ PlannerBuildPrompt
    \/ \E reply \in PlanReplies : PlannerLlmReturns(reply)
    \/ \E reply \in EndReplies : PlannerEndDecision(reply)
    \/ PlannerDispatch

SpecPlanner == InitPlanner /\ [][NextPlanner]_vars

\* ---------------------------------------------------------------------------
\* SessionManager.get_session (src/session.py) under concurrent calls.  A
\* PFCSession object is named by the order in which it was made; locks are
\* named by the key under which _locks holds them.
\* ---------------------------------------------------------------------------
MaxCalls == 3
MaxUsers == 2

Calls == 1..MaxCalls
Users == 1..MaxUsers
LockKeys == 1..(MaxUsers + MaxCalls)

\* _get_lock lines 509-513: the lock of a call
LockKey_PerCall(user_id, call) == MaxUsers + call

LockKey(user_id, call) == user_id

NoCall == [pc |-> "idle", user_id |-> 0, key |-> 0, waited |-> FALSE, session |-> 0,
           origin |-> "none"]

\* a manager with empty _sessions and _locks
InitManager ==
    /\ InitMain
    /\ obs = NoObs
    /\ storage = NoStorage
    /\ checker = NoChecker
    /\ waiter = NoWaiter
    /\ planner = NoPlanner
    /\ sm = [pc |-> "ready",
             sessions |-> [u \in Users |-> 0],
             locks |-> [k \in LockKeys |-> "absent"],
             holder |-> [k \in LockKeys |-> 0],
             calls |-> [c \in Calls |-> NoCall],
             constructed |-> [u \in Users |-> 0],
             made |-> 0]

LockIsFree(m, key) ==
    /\ m.locks[key] \in {"absent", "free"}
    /\ \A c \in Calls : ~(m.calls[c].pc = "lock_wait" /\ m.calls[c].key = key)

\* __aexit__ of the lock
Release(m, c) ==
    IF m.holder[m.calls[c].key] = c
    THEN [m EXCEPT !.locks[m.calls[c].key] = "free", !.holder[m.calls[c].key] = 0]
    ELSE m

\* lines 523-532: inside the lock, the cache is looked up; a hit returns the
\* cached object, a miss starts the load
EnterLocked(m, c) ==
    LET user_id == m.calls[c].user_id
        m1 == [m EXCEPT !.locks[m.calls[c].key] = "held", !.holder[m.calls[c].key] = c]
    IN  IF m1.sessions[user_id] # 0
        THEN Release([m1 EXCEPT !.calls[c].pc = "returned",
                                !.calls[c].session = m1.sessions[user_id],
                                !.calls[c].origin = "cache"], c)
        ELSE [m1 EXCEPT !.calls[c].pc = "loading"]

\* line 522: a call takes the lock of its user, or queues behind its holder
GetSessionBegin(c, user_id) ==
    /\ sm.pc = "ready"
    /\ sm.calls[c].pc = "idle"
    /\ LET key == LockKey(user_id, c)
           m1 == [sm EXCEPT !.calls[c].user_id = user_id, !.calls[c].key = key]
       IN  sm' = IF LockIsFree(sm, key)
                 THEN EnterLocked(m1, c)
                 ELSE [m1 EXCEPT !.calls[c].pc = "lock_wait", !.calls[c].waited = TRUE,
                                 !.locks[key] = IF @ = "absent" THEN "free" ELSE @]
    /\ UNCHANGED <<mainVars, checker, waiter, planner, storage, obs>>

\* the lock was released and a queued call gets it
GetSessionAcquire(c) ==
    /\ sm.pc = "ready"
    /\ sm.calls[c].pc = "lock_wait"
    /\ sm.locks[sm.calls[c].key] = "free"
    /\ sm' = EnterLocked(sm, c)
    /\ UNCHANGED <<mainVars, checker, waiter, planner, storage, obs>>

\* lines 528-544: the load returns a stored session or None, in which case a
\* new PFCSession is made; the object is cached and returned
GetSessionLoaded(c, stored) ==
    /\ sm.pc = "ready"
    /\ sm.calls[c].pc = "loading"
    /\ LET user_id == sm.calls[c].user_id
           new_session == sm.made + 1
       IN  sm' = Release([sm EXCEPT !.made = new_session,
                                    !.constructed[user_id] = @ + 1,
                                    !.sessions[user_id] = new_session,
                                    !.calls[c].pc = "returned",
                                    !.calls[c].session = new_session,
                                    !.calls[c].origin = IF stored THEN "loaded"
                                                                  ELSE "constructed"], c)
    /\ UNCHANGED <<mainVars, checker, waiter, planner, storage, obs>>

\* the task of a call is cancelled while it waits for the lock or for the load
GetSessionCancelled(c) ==
    /\ sm.pc = "ready"
    /\ sm.calls[c].pc \in {"lock_wait", "loading"}
    /\ sm' = Release([sm EXCEPT !.calls[c].pc = "cancelled"], c)
    /\ UNCHANGED <<mainVars, checker, waiter, planner, storage, obs>>

NextManager ==
    \/ \E c \in Calls, user_id \in Users : GetSessionBegin(c, user_id)
    \/ \E c \in Calls : GetSessionAcquire(c)
    \/ \E c \in Calls, stored \in BOOLEAN : GetSessionLoaded(c, stored)
    \/ \E c \in Calls : GetSessionCancelled(c)

SpecManager == InitManager /\ [][NextManager]_vars

\* ---------------------------------------------------------------------------
\* DatabaseSessionStorage (src/db_storage.py) with the session operations that
\* change chat_history.  A message is its type and its time; the table of
\* persisted messages is the sequence of its rows in insertion order.
\* ---------------------------------------------------------------------------
MaxClock == 4
MaxStored == 3
HISTORY_LIMIT == 100

Msg(type, time) == [type |-> type, time |-> time]

\* message times are those of distinct instants
UsedTimes(st) == {m.time : m \in Range(st.chat_history) \cup Range(st.unprocessed)}

\* get_history_by_user(limit=1): the latest persisted message time, 0.0 if none
LastSavedTime(rows) ==
    IF rows = <<>> THEN 0
    ELSE CHOOSE t \in {r.time : r \in Range(rows)} :
             \A r \in Range(rows) : r.time <= t

\* _save_chat_history line 267: the message is newer than the watermark
SaveEligible_Inclusive(msg_time, last_saved_time) == msg_time >= last_saved_time

SaveEligible(msg_time, last_saved_time) == msg_time > last_saved_time

\* trim_history: the max_count rows of the latest message times are kept
RECURSIVE TrimRows(_, _)
TrimRows(rows, max_count) ==
    IF Len(rows) <= max_count THEN rows
    ELSE LET i == CHOOSE k \in 1..Len(rows) :
                      \A j \in 1..Len(rows) : rows[k].time <= rows[j].time
         IN  TrimRows(SubSeq(rows, 1, i - 1) \o SubSeq(rows, i + 1, Len(rows)), max_count)

\* models.py lines 204-206: the history keeps its last 100 entries
CapHistory(h) ==
    IF Len(h) > HISTORY_LIMIT THEN SubSeq(h, Len(h) - HISTORY_LIMIT + 1, Len(h)) ELSE h

InitStorage ==
    /\ InitMain
    /\ obs = NoObs
    /\ checker = NoChecker
    /\ waiter = NoWaiter
    /\ planner = NoPlanner
    /\ sm = NoManager
    /\ storage = [pc |-> "idle", now |-> 0, chat_history |-> <<>>, unprocessed |-> <<>>,
                  rows |-> <<>>, last_saved_time |-> 0, index |-> 0,
                  last_result |-> "none", dirty |-> FALSE, resave |-> FALSE,
                  inserts |-> 0, stale |-> FALSE]

\* the session was changed: a running save is no longer a save of an
\* unchanged session
Touched(st) == [st EXCEPT !.dirty = TRUE, !.resave = FALSE]

\* PFCSession.add_user_message with the time the message was sent; stale
\* records that some message came in with a time that had already passed
StorageUserMessage(t) ==
    /\ storage.pc # "unused"
    /\ Len(storage.chat_history) + Len(storage.unprocessed) < MaxStored
    /\ t \notin UsedTimes(storage)
    /\ t <= storage.now + 1
    /\ storage' = [Touched(storage) EXCEPT
                      !.unprocessed = Append(@, Msg("user_message", t)),
                      !.stale = @ \/ t <= storage.now,
                      !.now = IF t > @ THEN t ELSE @]
    /\ UNCHANGED <<mainVars, checker, waiter, planner, sm, obs>>

\* PFCSession.add_bot_message lines 207-223: the time is time.time()
StorageBotMessage ==
    /\ storage.pc # "unused"
    /\ Len(storage.chat_history) + Len(storage.unprocessed) < MaxStored
    /\ storage.now < MaxClock
    /\ storage' = [Touched(storage) EXCEPT
                      !.chat_history = Append(@, Msg("bot_message", storage.now + 1)),
                      !.now = @ + 1]
    /\ UNCHANGED <<mainVars, checker, waiter, planner, sm, obs>>

\* ObservationInfo.clear_unprocessed_messages lines 195-217
StorageMerge ==
    /\ storage.pc # "unused"
    /\ storage.unprocessed # <<>>
    /\ storage' = [Touched(storage) EXCEPT
                      !.chat_history = CapHistory(@ \o storage.unprocessed),
                      !.unprocessed = <<>>]
    /\ UNCHANGED <<mainVars, checker, waiter, planner, sm, obs>>

\* _save_chat_history lines 257-262: the watermark is read
SaveBegin ==
    /\ storage.pc = "idle"
    /\ storage' = [storage EXCEPT
                      !.pc = "saving", !.index = 1, !.inserts = 0,
                      !.last_saved_time = LastSavedTime(storage.rows),
                      !.resave = (storage.last_result = "ok" /\ ~storage.dirty),
                      !.dirty = FALSE]
    /\ UNCHANGED <<mainVars, checker, waiter, planner, sm, obs>>

\* lines 265-275: the next message of chat_history is looked at and inserted
\* when it is newer than the watermark
SaveVisit ==
    /\ storage.pc = "saving"
    /\ storage.index <= Len(storage.chat_history)
    /\ LET msg == storage.chat_history[storage.index]
       IN  storage' =
             IF SaveEligible(msg.time, storage.last_saved_time)
             THEN [storage EXCEPT !.rows = Append(@, msg), !.index = @ + 1,
                                  !.inserts = @ + 1]
             ELSE [storage EXCEPT !.index = @ + 1]
    /\ UNCHANGED <<mainVars, checker, waiter, planner, sm, obs>>

\* lines 277-278 and save_session line 249: the table is trimmed, the save
\* returns True
SaveEnd ==
    /\ storage.pc = "saving"
    /\ storage.index > Len(storage.chat_history)
    /\ storage' = [storage EXCEPT !.pc = "idle", !.last_result = "ok",
                                  !.rows = TrimRows(@, HISTORY_LIMIT)]
    /\ UNCHANGED <<mainVars, checker, waiter, planner, sm, obs>>

\* save_session lines 250-252: a database call raised, the save returns False
SaveFail ==
    /\ storage.pc = "saving"
    /\ storage' = [storage EXCEPT !.pc = "idle", !.last_result = "failed"]
    /\ UNCHANGED <<mainVars, checker, waiter, planner, sm, obs>>

NextStorage ==
    \/ \E t \in 1..MaxClock : StorageUserMessage(t)
    \/ StorageBotMessage
    \/ StorageMerge
    \/ SaveBegin
    \/ SaveVisit
    \/ SaveEnd
    \/ SaveFail

SpecStorage == InitStorage /\ [][NextStorage]_vars

\* ---------------------------------------------------------------------------
\* PFCSession on its own: the goal texts that _clear_timeout_goals filters and
\* the capped chat history (session.py, models.py).  A text is the sequence
\* of its phrases, transliterated; a message is named by its number.
\* ---------------------------------------------------------------------------
MaxExtra == 4
MaxGoalTexts == 2

PhWaited == "ni deng dai le N"
PhMinutes == "fen zhong,"
PhEnded == "zhu yi ke neng zai dui fang kan lai liao tian yi jing jie shu"
PhVanished == "dui fang si hu hua shuo yi ban tu ran xiao shi le"
PhThink == "si kao jie xia lai yao zuo shen me"

\* Waiter.wait line 55 and wait_listening line 77
WaitGoalText == <<PhWaited, PhMinutes, PhEnded, ",", PhThink>>
ListenGoalText == <<PhWaited, PhMinutes, PhVanished, ",", PhThink>>
WaiterGoalTexts == {WaitGoalText, ListenGoalText}

\* goals written by GoalAnalyzer from the model's answer: free text, which
\* may repeat a phrase of the goals it was shown
EndGoalText == <<"jie shu dui hua">>
AnalyzerGoalTexts ==
    {EndGoalText, <<"liao liao tian qi">>, <<PhVanished, ",", "wen wen zen me le">>}

\* _clear_timeout_goals lines 175-179
timeout_keywords ==
    {<<PhMinutes, PhThink>>, <<PhMinutes, PhEnded>>, <<PhVanished>>}

\* lines 189-191
IsTimeoutGoal(goal_text) == \E keyword \in timeout_keywords : Contains(goal_text, keyword)

\* _clear_timeout_goals lines 163-205
KeepGoal_All(goal_text) == TRUE

KeepGoal(goal_text) == ~IsTimeoutGoal(goal_text)

RECURSIVE ClearTimeoutGoalTexts(_)
ClearTimeoutGoalTexts(goal_list) ==
    IF goal_list = <<>> THEN <<>>
    ELSE IF KeepGoal(Head(goal_list))
    THEN <<Head(goal_list)>> \o ClearTimeoutGoalTexts(Tail(goal_list))
    ELSE ClearTimeoutGoalTexts(Tail(goal_list))

\* a session whose history already holds n messages, 1..n
InitObs ==
    /\ InitMain
    /\ storage = NoStorage
    /\ checker = NoChecker
    /\ waiter = NoWaiter
    /\ planner = NoPlanner
    /\ sm = NoManager
    /\ \E n \in (MAX_HISTORY_SIZE - 2)..MAX_HISTORY_SIZE :
           obs = [chat_history |-> [i \in 1..n |-> i],
                  unprocessed_messages |-> <<>>, new_messages_count |-> 0,
                  goal_list |-> <<>>, removed |-> 0, made |-> n, appended |-> [i \in 1..n |-> i],
                  last |-> "none"]

\* add_user_message lines 126-161
ObsAddUserMessage ==
    /\ obs.made < MAX_HISTORY_SIZE + MaxExtra
    /\ obs' = [obs EXCEPT !.made = @ + 1,
                          !.unprocessed_messages = Append(@, obs.made + 1),
                          !.new_messages_count = @ + 1,
                          !.goal_list = ClearTimeoutGoalTexts(@),
                          !.removed = Len(obs.goal_list) - Len(ClearTimeoutGoalTexts(obs.goal_list)),
                          !.last = "add_user_message"]
    /\ UNCHANGED <<mainVars, checker, waiter, planner, sm, storage>>

\* add_bot_message lines 207-246
ObsAddBotMessage ==
    /\ obs.made < MAX_HISTORY_SIZE + MaxExtra
    /\ obs' = [obs EXCEPT !.made = @ + 1,
                          !.chat_history = TrimHistory(Append(@, obs.made + 1)),
                          !.appended = Append(@, obs.made + 1),
                          !.last = "add_bot_message"]
    /\ UNCHANGED <<mainVars, checker, waiter, planner, sm, storage>>

\* PFCSession.clear_unprocessed_messages lines 297-300 on
\* ObservationInfo.clear_unprocessed_messages
ObsFold ==
    /\ obs.unprocessed_messages # <<>>
    /\ obs' = [obs EXCEPT !.chat_history = TrimHistory(CapHistory(@ \o obs.unprocessed_messages)),
                          !.appended = @ \o obs.unprocessed_messages,
                          !.unprocessed_messages = <<>>,
                          !.new_messages_count = 0,
                          !.last = "clear_unprocessed_messages"]
    /\ UNCHANGED <<mainVars, checker, waiter, planner, sm, storage>>

\* a Waiter times out (lines 54, 76), or GoalAnalyzer adds a goal
ObsAppendGoal(goal_text) ==
    /\ Len(obs.goal_list) < MaxGoalTexts
    /\ obs' = [obs EXCEPT !.goal_list = Append(@, goal_text), !.last = "goal"]
    /\ UNCHANGED <<mainVars, checker, waiter, planner, sm, storage>>

NextObs ==
    \/ ObsAddUserMessage
    \/ ObsAddBotMessage
    \/ ObsFold
    \/ \E g \in WaiterGoalTexts \cup AnalyzerGoalTexts : ObsAppendGoal(g)

SpecObs == InitObs /\ [][NextObs]_vars


\* Fair scheduling: a task that can run does run, a pending planner call
\* eventually returns an action, pending waits of execute and stop end, and the
\* clock passes the end of an ignore window.
FairSpec ==
    /\ Spec
    /\ \A l \in Loops : WF_vars(LoopStep(l))
    /\ \A l \in Loops : SF_vars(\E a \in valid_actions : PlanDone(l, a))
    /\ WF_vars(ExecuteAfterSave)
    /\ WF_vars(ExecuteAfterLock)
    /\ WF_vars(StopEnd)
    /\ WF_vars(IgnoreExpires)

\* ---------------------------------------------------------------------------
\* Properties
\* ---------------------------------------------------------------------------
Alive(l) == loops[l].pc \notin {"none", "done"}

InUnprocessed(i) == UserMsg(i) \in Range(session.unprocessed_messages)
InHistory(i) == UserMsg(i) \in Range(session.chat_history)

Occurrences(seq, x) == Cardinality({k \in 1..Len(seq) : seq[k] = x})

\* C1: at any time at most one loop object of the user has _running = true,
\* and at most one has a live loop task.
C1_AtMostOneLoopRunning ==
    /\ Cardinality({l \in Loops : loops[l].running}) <= 1
    /\ Cardinality({l \in Loops : Alive(l)}) <= 1

\* C1 witness: a second loop was created and runs after an earlier one ended.
C1_Witness ==
    \E l \in Loops : /\ loops[l].running /\ Alive(l)
                     /\ \E k \in Loops \ {l} : loops[k].pc = "done"

\* C2 (as claimed): an action is dispatched only if no message was ingested
\* between the start of the planning call that chose it and the dispatch.
C2_NoStalePlanDispatched ==
    \A l \in Loops : loops[l].dispBase = loops[l].planBase

\* C3 (as claimed): a reply is sent only if no message was ingested between
\* the start of its generation and the decision to send it.
C3_NoStaleReplySent ==
    \A l \in Loops :
        loops[l].pc = "sending" /\ loops[l].action \in ReplyActions
            => loops[l].sendBase = loops[l].genBase

\* Where the bounds of the model, not the code, keep the loop from going on.
BoundReached ==
    \E l \in Loops :
        \/ loops[l].pc = "planning" /\ Len(session.done_action) >= MaxActions
        \/ loops[l].pc \in WaitPcs /\ Len(session.goal_list) >= MaxGoals

\* The manager has stopped the loop of the user (stop_loop, stop_all): it holds
\* its lock, or no loop is registered.
LoopStopped == mgr.lock = "held" \/ mgr.registered = 0

\* C4 (as claimed): every message appended to unprocessed_messages eventually
\* appears in chat_history, in runs where the loop is not stopped by the manager
\* and that the bounds of the model do not cut.
C4_EveryMessageReachesHistory ==
    \A i \in MsgIds :
        [](InUnprocessed(i) => <>(InHistory(i) \/ BoundReached \/ LoopStopped))

\* C5 (as claimed): no message occurs twice in chat_history, and none is in
\* unprocessed_messages and chat_history at the same time.
C5_MergedAtMostOnce ==
    \A i \in MsgIds :
        Occurrences(session.chat_history, UserMsg(i))
            + Occurrences(session.unprocessed_messages, UserMsg(i)) <= 1

\* C6: a reply action makes at most max_retries generation calls; when every
\* call was answered by a rejection with should_replan = false, the fallback
\* wait runs after exactly max_retries calls.
C6_RetryBound ==
    \A l \in Loops :
        /\ loops[l].genCalls <= max_retries
        /\ loops[l].attempt = loops[l].genCalls
        /\ (loops[l].pc = "fallback_waiting" /\ loops[l].softRejects = loops[l].genCalls
                => loops[l].genCalls = max_retries)

\* C6 witness: the fallback wait runs after max_retries rejected generations.
C6_Witness ==
    \E l \in Loops : /\ loops[l].pc = "fallback_waiting"
                     /\ loops[l].softRejects = max_retries
                     /\ loops[l].genCalls = max_retries

\* The bot lines of a history, oldest first.
BotLines(chat_history) ==
    SelectSeq(chat_history, LAMBDA msg : msg.type = "bot_message")

\* C7 (as claimed): with the checker enabled, a candidate identical to the
\* last bot line of the history is rejected with need_replan, at retry_count 0.
C7_DuplicateOfLastBotLineRejected ==
    LET lines == BotLines(checker.chat_history)
    IN  /\ checker.pc = "checked"
        /\ checker.config.enabled
        /\ checker.retry_count = 0
        /\ lines # <<>>
        /\ checker.reply = lines[Len(lines)].content
        => ~checker.verdict.suitable /\ checker.verdict.need_replan

\* C8 (as claimed): an action_history entry has status start only while the
\* handler that owns it is running.
C8_StartOnlyWhileHandled ==
    \A i \in 1..Len(session.done_action) :
        session.done_action[i].status = "start"
            => \E l \in Loops : Alive(l) /\ loops[l].action_index = i

\* C9: a loop that executed block_and_ignore has ended, and no planning call
\* is in progress while the ignore window is open.
C9_NoPlanningWhileIgnored ==
    \A l \in Loops :
        /\ loops[l].didBlock => loops[l].pc = "done"
        /\ loops[l].pc \in {"planning", "plan_settle"} => session.ignore_until # "future"

\* C9 witness: block_and_ignore was executed, the window is open and messages
\* have arrived in it.
C9_Witness ==
    /\ session.ignore_until = "future"
    /\ ghost.arrivedInWindow # {}
    /\ \E l \in Loops : loops[l].didBlock

\* C10 (as claimed): a message that arrived while the ignore window was open
\* is queued in the session.
C10_WindowMessagesQueued ==
    \A i \in ghost.arrivedInWindow : InUnprocessed(i) \/ InHistory(i)

\* C11: a wait whose predicate never returns true ends after at most
\* timeout / check_interval + 2 polls; it then has returned true and appended
\* exactly one goal; before it returns it has appended none.
C11_WaitTimesOutOnce ==
    /\ [](/\ waiter.polls <= 1
             \/ check_interval * (waiter.polls - 2) <= waiter.timeout_seconds
          /\ waiter.pc # "returned" => waiter.goal_list = SubSeq(waiter.goal_list, 1, waiter.goals_before)
          /\ waiter.pc = "returned" /\ waiter.result # "false" =>
                /\ waiter.result = "true"
                /\ Len(waiter.goal_list) = waiter.goals_before + 1
                /\ waiter.goal_list[Len(waiter.goal_list)] = TimeoutGoal(waiter.kind))
    /\ <>(waiter.pc = "returned")

\* C11 witness: a wait returned true after several polls that found nothing.
C11_Witness ==
    /\ waiter.pc = "returned"
    /\ waiter.result = "true"
    /\ waiter.polls >= 3
    /\ Len(waiter.goal_list) = waiter.goals_before + 1

\* C12: the step in which the handler of end_conversation, say_goodbye or
\* block_and_ignore completes leaves should_continue false and the loop ended
\* and not running; the loop stays ended.
C12_TerminalActionEndsLoop ==
    [][\A l \in Loops :
          loops'[l].ended_by # "none" =>
              /\ loops'[l].pc = "done"
              /\ ~loops'[l].running
              /\ loops[l].ended_by = "none" => ~session'.should_continue]_vars

\* C12 witness: say_goodbye completed without a farewell being recorded while
\* two messages wait unprocessed.
C12_Witness ==
    \E l \in Loops :
        /\ loops[l].ended_by = "say_goodbye"
        /\ BotMsg \notin Range(session.chat_history)
        /\ Len(session.unprocessed_messages) = 2

\* C13: while a reply action sends, the text it sends (final_reply) is a text
\* that ReplyChecker.check accepted in this action; an action that reached
\* its fallback wait has no accepted text and sends nothing.
C13_OnlyAcceptedTextSent ==
    \A l \in Loops :
        /\ loops[l].pc = "sending" /\ loops[l].action \in ReplyActions =>
              /\ loops[l].acceptedText # 0
              /\ loops[l].final_reply = loops[l].acceptedText
        /\ loops[l].pc = "fallback_waiting" =>
              loops[l].acceptedText = 0 /\ loops[l].final_reply = 0

\* C13 witness: a reply accepted at its second attempt, after a rejection, is
\* being sent.
C13_Witness ==
    \E l \in Loops :
        /\ loops[l].pc = "sending"
        /\ loops[l].action \in ReplyActions
        /\ loops[l].softRejects >= 1
        /\ loops[l].acceptedText = 2

\* C14 (as claimed): after the checker rejected a reply with need_replan, the
\* loop is in the fallback wait until that wait is recorded; it is nowhere
\* else before planning resumes.
C14_ReplanRejectionWaits ==
    \A l \in Loops : loops[l].replanRejected => loops[l].pc = "fallback_waiting"

\* C15 (as claimed): a step of execute (the only steps that change chatter)
\* leaves goal_list, done_action and the state of the session unchanged.
C15_IngestionFrame ==
    [][chatter' # chatter =>
          /\ session'.goal_list = session.goal_list
          /\ session'.done_action = session.done_action
          /\ session'.state = session.state]_vars

\* C16: the loop task ends only by leaving the while (should_continue false or
\* the loop stopped) or by cancellation; a step in which planning, generation,
\* checking, fetching, goal analysis or sending fails never ends it while
\* should_continue is true.
C16_FailureNeverEndsLoop ==
    [][\A l \in Loops :
          (Alive(l) /\ loops'[l].pc = "done") =>
              \/ ~session'.should_continue
              \/ ~loops[l].running
              \/ loops[l].cancelReq]_vars

\* an exception escaped an iteration and the loop sleeps before the next one
C16_Witness ==
    \E l \in Loops : /\ loops[l].pc = "error_sleep"
                     /\ loops[l].running
                     /\ ~loops[l].cancelReq
                     /\ session.should_continue

\* what the reply of the model held under a key, when it was a JSON object
\* holding that key
Said(key) ==
    IF planner.content.json = "object" /\ key \in DOMAIN planner.content.obj
    THEN planner.content.obj[key] ELSE JNull

PlanReturned == planner.pc \in {"returned", "handled"}

\* C17 (as claimed): whenever the reply of the model names an action string
\* outside the vocabulary, plan returns wait with a reason that holds the note
\* of the coercion and the reason the model gave; and every returned action is
\* in the vocabulary.
C17_UnknownActionCoercedWithNote ==
    PlanReturned =>
        /\ planner.result.action \in valid_actions
        /\ (Said("action").kind = "str" /\ Said("action").v \notin valid_actions) =>
               /\ planner.result.action = "wait"
               /\ "' invalid, forced to wait) " \in Range(planner.result.reason)
               /\ Truthy(Said("reason")) =>
                      Said("reason").v \in Range(planner.result.reason)

\* C18 (as claimed): with enable_block_action false plan never returns
\* block_and_ignore and the dispatch of its result never sets ignore_until.
C18_DisabledBlockNeverReturned ==
    ~planner.config.enable_block_action =>
        /\ PlanReturned => planner.result.action # "block_and_ignore"
        /\ planner.session.ignore_until = "none"

C20_OneSessionPerUser ==
    sm.pc = "ready" =>
        /\ \A u \in Users : sm.constructed[u] <= 1
        /\ \A c \in Calls :
               sm.calls[c].pc = "returned" =>
                   /\ sm.calls[c].session # 0
                   /\ sm.calls[c].session = sm.sessions[sm.calls[c].user_id]
                   /\ sm.constructed[sm.calls[c].user_id] = 1

\* two calls for one user overlapped (one queued on the lock) and both returned
C20_Witness ==
    /\ sm.pc = "ready"
    /\ \E c1, c2 \in Calls :
           /\ c1 # c2
           /\ sm.calls[c1].pc = "returned" /\ sm.calls[c2].pc = "returned"
           /\ sm.calls[c1].user_id = sm.calls[c2].user_id
           /\ sm.calls[c2].waited

\* C21: a stop_loop call that has begun always returns; when it returns the
\* registry has no entry (so a further stop_loop finds nothing to stop), the
\* stopped loop has ended and is not running.
C21_StopTerminates ==
    /\ (mgr.lock = "held") ~> (mgr.lock = "free")
    /\ [][(mgr.lock = "held" /\ mgr'.lock = "free") =>
              /\ mgr'.registered = 0
              /\ loops[mgr.registered].pc = "done"
              /\ ~loops'[mgr.registered].running]_vars

\* stop_loop was called on a loop in the middle of an action, the task has
\* ended by cancellation and stop is about to return
C21_Witness ==
    /\ mgr.lock = "held"
    /\ loops[mgr.registered].pc = "done"
    /\ Len(session.done_action) > 0

\* C22 (as claimed): when stop returns, the loop it stopped has no planning
\* or generation task in flight.
C22_NoSubtaskAfterStop ==
    [][(mgr.lock = "held" /\ mgr'.lock = "free") =>
           loops[mgr.registered].subtasks = {}]_vars

\* a step in which execute's call of get_or_create_loop returns
GetOrCreateReturns ==
    chatter' # chatter /\ chatter'.pc = "idle" /\ chatter'.unread = <<>>

\* C23: the loop get_or_create_loop returns is registered, running and its task
\* has not ended; when the registered loop had stopped, the entry is replaced
\* by a newly started loop.
C23_NeverReturnsStoppedLoop ==
    [][GetOrCreateReturns =>
          /\ mgr'.registered # 0
          /\ loops'[mgr'.registered].running
          /\ loops'[mgr'.registered].pc \notin {"none", "done"}
          /\ (mgr.registered # 0 /\ ~loops[mgr.registered].running) =>
                 /\ mgr'.registered # mgr.registered
                 /\ loops'[mgr'.registered].pc = "start"]_vars

\* a loop ended on its own and get_or_create_loop has registered a new one
C23_Witness ==
    /\ chatter.pc = "idle"
    /\ mgr.lock = "free"
    /\ \E l \in Loops :
           /\ mgr.registered = l
           /\ loops[l].pc = "start"
           /\ \E k \in Loops \ {l} : loops[k].pc = "done" /\ loops[k].ended_by # "none"

\* C24 (as claimed): after a successful save of a session that has not changed
\* since the save began, every message of chat_history is a persisted row.
C24_SavedHistoryComplete ==
    (storage.pc = "idle" /\ storage.last_result = "ok" /\ ~storage.dirty) =>
        Range(storage.chat_history) \subseteq Range(storage.rows)

\* C25: a save inserts only messages newer than the watermark it read; no
\* message is persisted twice; and a save that follows a successful save of
\* the same, unchanged session leaves the persisted rows as they were.
C25_ResaveIdempotent ==
    /\ [](storage.pc # "unused" =>
             \A i, j \in 1..Len(storage.rows) :
                 storage.rows[i] = storage.rows[j] => i = j)
    /\ [][storage.pc = "saving" =>
             /\ storage'.inserts > storage.inserts =>
                    storage'.rows[Len(storage'.rows)].time > storage.last_saved_time
             /\ storage.resave => storage'.rows = storage.rows]_vars

\* a second save of an unchanged session with persisted messages has completed
C25_Witness ==
    /\ storage.pc = "idle"
    /\ storage.resave
    /\ storage.last_result = "ok"
    /\ Len(storage.rows) >= 2
    /\ Range(storage.chat_history) = Range(storage.rows)

\* a step in which loop l leaves the await of a planning that the interrupt
\* event overtook
PlanningInterruptedStep(l) ==
    loops[l].pc = "planning" /\ loops[l].interrupt /\ loops'[l].pc # "planning"

\* C26 (as claimed): whenever the interrupt event was set before planning
\* completed, by notify_new_message or by stop, the plan is cancelled,
\* last_successful_reply_action becomes null, no entry is added to done_action
\* and the iteration restarts.
C26_InterruptRestartsIteration ==
    [][\A l \in Loops : PlanningInterruptedStep(l) =>
           /\ "plan" \notin loops'[l].subtasks
           /\ session'.last_successful_reply_action = "none"
           /\ session'.done_action = session.done_action
           /\ loops'[l].pc = "restart_sleep"]_vars

\* C26 (amended): when notify_new_message set the event the above holds; when
\* stop set it, the plan is cancelled and no handler runs, but the loop task
\* ends with the session left as it was.
C26_InterruptDiscardsPlan ==
    [][\A l \in Loops : PlanningInterruptedStep(l) =>
           /\ "plan" \notin loops'[l].subtasks
           /\ session'.done_action = session.done_action
           /\ IF loops[l].cancelReq
              THEN loops'[l].pc = "done" /\ session' = session
              ELSE /\ session'.last_successful_reply_action = "none"
                   /\ loops'[l].pc = "restart_sleep"]_vars

\* a planning was interrupted by a new message and the loop waits to plan again
C26_Witness ==
    \E l \in Loops : /\ loops[l].pc = "restart_sleep"
                     /\ loops[l].interrupt
                     /\ loops[l].action = "none"
                     /\ "plan" \notin loops[l].subtasks
                     /\ session.last_successful_reply_action = "none"

\* ---------------------------------------------------------------------------
\* A step of loop l in which ReplyLoopHead starts a generation task
\* (conversation_loop.py line 298); the first one of an action has genCalls 1.
GenerationBegins(l) == loops'[l].genCalls > loops[l].genCalls

\* the messages ingested before the action was dispatched: those the planning
\* call could read, whenever it built its prompt
SeenByPlanner(L) == 1..L.dispBase

StatusSet(l, st) ==
    /\ loops[l].action_index > 0
    /\ session.done_action[loops[l].action_index].status # st
    /\ session'.done_action[loops[l].action_index].status = st

\* A step of loop l in which _send_reply ends because the send raised
\* (lines 401-402): no line is recorded in this step
SendFailedStep(l) ==
    /\ loops[l].pc = "sending" /\ ~loops[l].cancelReq
    /\ loops'[l].pc # "sending"
    /\ session'.chat_history = session.chat_history

\* the parts of C28, one per clause
LastReplyInRange ==
    session.last_successful_reply_action \in {"none"} \cup ReplyActions

LastReplySetOnlyBySentReply ==
    \A l \in Loops :
        (/\ loops[l].action \in ReplyActions
         /\ session'.last_successful_reply_action # "none"
         /\ (StatusSet(l, "done")
              \/ session'.last_successful_reply_action # session.last_successful_reply_action))
        => /\ loops[l].pc = "sending"
           /\ session'.last_successful_reply_action = loops[l].action
           /\ session'.chat_history = Append(session.chat_history, BotMsg)

LastReplyClearedByOtherAction ==
    \A l \in Loops :
        (loops[l].action \notin ReplyActions /\ StatusSet(l, "done"))
        => session'.last_successful_reply_action = "none"

LastReplyClearedByFailedReply ==
    \A l \in Loops :
        (loops[l].action \in ReplyActions /\ StatusSet(l, "recall") /\ ~loops[l].interrupt)
        => session'.last_successful_reply_action = "none"

LastReplyClearedByRestart ==
    \A l \in Loops :
        (loops[l].pc \in {"planning", "plan_settle"} /\ loops'[l].pc = "restart_sleep")
        => session'.last_successful_reply_action = "none"

\* C28: last_successful_reply_action is null, direct_reply or
\* send_new_message; it becomes or stays non-null at the end of an action only
\* when that action is a reply of that type whose text was sent; it is null
\* after another action succeeds, after a reply attempt fails and after
\* planning is interrupted or restarted.
C28_LastReplyTracksSentReply ==
    [][/\ LastReplyInRange'
       /\ LastReplySetOnlyBySentReply
       /\ LastReplyClearedByOtherAction
       /\ LastReplyClearedByFailedReply
       /\ LastReplyClearedByRestart]_vars

\* C29: a reply action whose send failed is not recorded as done and
\* last_successful_reply_action is not set to it.
C29_FailedSendNotRecorded ==
    [][\A l \in Loops :
           (loops[l].action \in ReplyActions /\ SendFailedStep(l))
           => /\ session'.done_action[loops[l].action_index].status # "done"
              /\ session'.last_successful_reply_action # loops[l].action]_vars

\* ---------------------------------------------------------------------------
\* A step of loop l in which _handle_fetch_knowledge returns or raises
FetchEnds(l) ==
    /\ loops[l].pc = "fetching" /\ ~loops[l].cancelReq
    /\ loops'[l].pc # "fetching"

\* the fetch of that step recorded a piece of knowledge (line 417)
KnowledgeRecorded == Len(session'.knowledge_list) > Len(session.knowledge_list)

\* C30: when a fetch_knowledge action ends its status is done only if the
\* fetch returned knowledge (which the handler records); otherwise it is
\* recall; in both cases the loop goes on to its next iteration.
C30_FetchDoneOnlyWhenFound ==
    [][\A l \in Loops : FetchEnds(l) =>
           LET st == session'.done_action[loops[l].action_index].status
           IN  /\ st = IF KnowledgeRecorded THEN "done" ELSE "recall"
               /\ session'.should_continue => loops'[l].pc = "tick_sleep"]_vars

\* ---------------------------------------------------------------------------
\* C31: the Waiter appends a goal only on a timeout: a call that returned
\* false (activity at a poll) or that was cancelled leaves the goal list as it
\* was, and a goal is appended only in the step that returns true, at a poll
\* whose elapsed time is past the timeout.
C31_GoalOnlyOnTimeout ==
    [][/\ waiter'.goal_list # waiter.goal_list =>
              /\ waiter.pc = "poll" /\ waiter'.pc = "returned"
              /\ waiter'.result = "true"
              /\ waiter'.elapsed > waiter.timeout_seconds
              /\ waiter'.goal_list = Append(waiter.goal_list, TimeoutGoal(waiter.kind))
       /\ waiter'.pc = "cancelled" => waiter'.goal_list = waiter.goal_list
       /\ (waiter'.pc = "returned" /\ waiter'.result = "false") =>
              /\ waiter.pc = "poll"
              /\ waiter'.goal_list = waiter.goal_list]_vars

\* a wait was cancelled after several polls, its goal list untouched
C31_Witness ==
    /\ waiter.pc = "cancelled"
    /\ waiter.polls >= 2
    /\ waiter.goal_list = <<"other">>

\* ---------------------------------------------------------------------------
\* C32: at a poll that finds no activity and reads an elapsed time equal to
\* timeout_seconds, the call appends its timeout goal and returns true at
\* that poll.
C32_TimeoutAtEquality ==
    [][(/\ waiter.pc = "poll"
        /\ waiter'.elapsed = waiter.timeout_seconds
        /\ ~(waiter'.pc = "returned" /\ waiter'.result = "false"))
       => /\ waiter'.pc = "returned"
          /\ waiter'.result = "true"
          /\ waiter'.goal_list = Append(waiter.goal_list, TimeoutGoal(waiter.kind))]_vars

\* ---------------------------------------------------------------------------
\* the goals of a list that are in a set, in their order
RECURSIVE Restrict(_, _)
Restrict(goal_list, S) ==
    IF goal_list = <<>> THEN <<>>
    ELSE IF Head(goal_list) \in S THEN <<Head(goal_list)>> \o Restrict(Tail(goal_list), S)
    ELSE Restrict(Tail(goal_list), S)

GoalTexts == WaiterGoalTexts \cup AnalyzerGoalTexts

AddUserMessageStep == obs'.last = "add_user_message" /\ obs'.made > obs.made

\* C33 as claimed: after add_user_message the goal list holds no goal
\* appended by the Waiter and every other goal, in the original order.
C33_OnlyWaiterGoalsRemoved ==
    [][AddUserMessageStep =>
           obs'.goal_list = Restrict(obs.goal_list, GoalTexts \ WaiterGoalTexts)]_vars

\* C33 amended: after add_user_message the goal list holds no goal appended
\* by the Waiter; the goals kept are, in the original order, those whose text
\* contains none of the marker phrases of _clear_timeout_goals.
C33_MarkedGoalsRemoved ==
    [][AddUserMessageStep =>
           /\ \A i \in 1..Len(obs'.goal_list) : obs'.goal_list[i] \notin WaiterGoalTexts
           /\ obs'.goal_list =
                  Restrict(obs.goal_list, {g \in GoalTexts : ~IsTimeoutGoal(g)})]_vars

\* a user message arrived on a list of a Waiter goal and an ordinary goal
C33_Witness ==
    /\ obs.last = "add_user_message"
    /\ obs.removed = 1
    /\ obs.goal_list = <<EndGoalText>>

\* ---------------------------------------------------------------------------
\* C36: after any sequence of add_bot_message and folds, chat_history holds
\* at most 100 entries, and they are the most recently appended ones, in the
\* order of their append (all of them while fewer than 100 were appended).
C36_HistoryKeepsLatestHundred ==
    LET h == obs.chat_history
        a == obs.appended
    IN  /\ Len(h) <= 100
        /\ Len(h) = IF Len(a) < 100 THEN Len(a) ELSE 100
        /\ h = SubSeq(a, Len(a) - Len(h) + 1, Len(a))

\* a fold of two messages and a bot line pushed three entries out
C36_Witness ==
    /\ Len(obs.appended) = 103
    /\ obs.last = "clear_unprocessed_messages"
    /\ Len(obs.chat_history) = 100
    /\ obs.chat_history[1] = 4
    /\ obs.chat_history[100] < obs.chat_history[99]

\* ---------------------------------------------------------------------------
\* A step of loop l in which a dispatched action ends: its handler returned
\* or raised (the task was not cancelled)
ActionCompletes(l) ==
    /\ \/ loops[l].action_index > 0
       \/ /\ loops[l].pc = "plan_settle"
          /\ Len(session'.done_action) > Len(session.done_action)
    /\ loops'[l].action_index = 0
    /\ ~(loops[l].cancelReq /\ loops[l].pc \notin SwallowPcs)

\* C34: when a dispatched action ends, however it ends, and the goal list
\* holds the goal that ends the conversation, should_continue is false and
\* the loop has ended without planning again.
C34_EndGoalStopsLoop ==
    [][\A l \in Loops :
           (ActionCompletes(l) /\ "end" \in Range(session'.goal_list))
           => /\ ~session'.should_continue
              /\ loops'[l].pc = "done"]_vars

PassedLocalChecks ==
    Check([checker.config EXCEPT !.use_llm_check = FALSE], checker.reply,
          checker.chat_history, checker.retry_count, "none").suitable

\* C35: with the LLM check enabled and the other checks passed, a call whose
\* LLM check failed (no answer, an exception, an answer that cannot be parsed)
\* accepts the reply.
C35_LlmFailureAccepts ==
    (/\ checker.pc = "checked"
     /\ checker.config.enabled /\ checker.config.use_llm_check
     /\ PassedLocalChecks
     /\ checker.outcome \in LlmFailures)
    => checker.verdict.suitable

\* ---------------------------------------------------------------------------
\* C37: in every reachable state of a session that started empty,
\* new_messages_count is the length of unprocessed_messages.
C37_CountMatchesUnprocessed ==
    session.new_messages_count = Len(session.unprocessed_messages)

\* two messages are waiting, both counted, while a loop is past its first
\* planning call
C37_Witness ==
    /\ Len(session.unprocessed_messages) = 2
    /\ session.new_messages_count = 2
    /\ session.done_action # <<>>

\* ---------------------------------------------------------------------------
OrderedByTime(h) ==
    \A i, j \in 1..Len(h) : i < j => h[i].time <= h[j].time

\* C39: chat_history is ordered by non-decreasing time, for every interleaving
\* of user messages stamped with their arrival time, bot lines appended when
\* they are sent, and folds.
C39_HistoryOrderedByTime ==
    ~storage.stale => OrderedByTime(storage.chat_history)

\* ---------------------------------------------------------------------------
\* a planning call has started after the k-th ingested message was recorded
PlannedAfter(k) == ghost.planned >= k

\* C38: whenever execute has ingested a message outside an ignore window, a
\* planning call that observes it is eventually started without a further
\* message, also when the message arrives while the loop runs a terminal
\* action or is about to exit; runs stopped by the manager or cut by the
\* bounds of the model are left out.
C38_IngestedMessageIsPlanned ==
    \A k \in 1..MaxMsgs :
        [](ghost.ingested >= k => <>(PlannedAfter(k) \/ BoundReached \/ LoopStopped))

====
